---- MODULE Spec2Model ----
(***************************************************************************)
(* Model of the secret-scanning pattern test engine                        *)
(* (src/secretscanning/test.py): pattern compilation, scanning with the    *)
(* multi-pattern matcher, refinement of every hit with the backtracking    *)
(* engine, the global RESULTS store, reconciliation against expectations   *)
(* and the top-level run modes.                                            *)
(*                                                                         *)
(* Buffers are sequences of bytes. Offsets are 0-based byte offsets as in  *)
(* the program; TLA+ sequences are 1-based, so byte k of a buffer is       *)
(* content[k + 1].                                                         *)
(***************************************************************************)
EXTENDS Integers, Sequences, FiniteSets, TLC

\* ------------------------------------------------------------------------
\* Bounds of the model
\* ------------------------------------------------------------------------

\* Longest fixture buffer, in bytes.
MaxLen == 3

\* Most expectations declared by one pattern.
MaxExpected == 1

\* Most pattern-set directories in the fixture tree.
MaxDirs == 2

\* Most repositories in the --repos list.
MaxRepos == 2

\* ------------------------------------------------------------------------
\* Bytes and buffers
\* ------------------------------------------------------------------------

\* "a" is an ASCII alphanumeric, "_" an ASCII non-alphanumeric (a blank),
\* "C3" "A9" are the lead and continuation byte of one two-byte UTF-8
\* character (U+00E9).
Bytes == {"a", "_", "C3", "A9"}

AlnumBytes == {"a"}

SeqsUpTo(S, n) == UNION {[1..k -> S] : k \in 0..n}

\* content[from:to] of Python, 0-based, end exclusive.
Slice(content, from, to) ==
    IF to <= from THEN <<>> ELSE [k \in 1..(to - from) |-> content[from + k]]

IsPrefixAt(lit, content, pos) ==
    /\ pos + Len(lit) <= Len(content)
    /\ \A k \in 1..Len(lit) : content[pos + k] = lit[k]

\* Well-formed UTF-8: every lead byte is followed by its continuation byte
\* and every continuation byte follows a lead byte.
ValidUtf8(content) ==
    \A k \in 1..Len(content) :
        /\ content[k] = "C3" => (k < Len(content) /\ content[k + 1] = "A9")
        /\ content[k] = "A9" => (k > 1 /\ content[k - 1] = "C3")

\* Number of characters bytes.decode('utf-8') yields for a well-formed buffer.
DecodedLen(bs) == Cardinality({k \in 1..Len(bs) : bs[k] # "A9"})

\* ------------------------------------------------------------------------
\* Regular expressions
\* A delimiter fragment (start / end) is NoFragment (the attribute is None, so the
\* class default applies) or a literal byte string. A body is a greedy
\* repetition [cls]{min,} of single-byte characters; hs = FALSE marks a body
\* the multi-pattern compiler rejects.
\* ------------------------------------------------------------------------

NONE == "None"

\* A start / end attribute that is None.
NoFragment == <<"None">>

\* The value of .match() when the regex does not match.
NoMatch == [start |-> -1, pattern |-> -1, end |-> -1]

\* path = None, as the random mode passes it.
NoPath == [dir |-> NONE, name |-> NONE]

\* Length of the character the UTF-8 mode matcher sees at byte offset pos
\* (0 when pos is at or past the end).
HsCharLen(content, pos) ==
    IF pos >= Len(content) THEN 0
    ELSE IF content[pos + 1] = "C3" THEN 2 ELSE 1

\* Hyperscan, UTF-8 mode: the start fragment matches content[i:j].
\* Default start is \A|[^0-9A-Za-z] (one whole non-alphanumeric character).
HsStart(start, content, i, j) ==
    IF start = NoFragment
    THEN \/ (i = 0 /\ j = 0)
         \/ /\ i < Len(content)
            /\ content[i + 1] \notin AlnumBytes
            /\ content[i + 1] # "A9"
            /\ j = i + HsCharLen(content, i)
    ELSE j = i + Len(start) /\ IsPrefixAt(start, content, i)

\* Hyperscan: the body [cls]{min,} matches content[j:k].
HsBody(body, content, j, k) ==
    /\ k - j >= body.min
    /\ \A x \in (j + 1)..k : content[x] \in body.cls

\* Hyperscan, UTF-8 mode: the end fragment matches content[k:l].
\* Default end is \z|[^0-9A-Za-z].
HsEnd(end, content, k, l) ==
    IF end = NoFragment
    THEN \/ (k = Len(content) /\ l = k)
         \/ /\ k < Len(content)
            /\ content[k + 1] \notin AlnumBytes
            /\ content[k + 1] # "A9"
            /\ l = k + HsCharLen(content, k)
    ELSE l = k + Len(end) /\ IsPrefixAt(end, content, k)

\* All (from, to) spans of content matched by (start)(body)(end).
HsSpans(p, content) ==
    {sp \in (0..Len(content)) \X (0..Len(content)) :
        \E j \in sp[1]..sp[2] : \E k \in j..sp[2] :
            /\ HsStart(p.start, content, sp[1], j)
            /\ HsBody(p.body, content, j, k)
            /\ HsEnd(p.end, content, k, sp[2])}

\* HS_FLAG_SOM_LEFTMOST: one hit per end offset at which a match ends,
\* reported with the leftmost start of the matches ending there.
HsHits(p, content) ==
    LET spans == HsSpans(p, content)
    IN  {sp \in spans : \A other \in spans : other[2] = sp[2] => sp[1] <= other[1]}

\* PCRE, byte mode (the regex is compiled from bytes), anchored at offset 0
\* of the slice by .match(). Alternatives of the start fragment in priority
\* order, as lengths: \A (empty) first, then one non-alphanumeric byte.
PcreStartAlts(start, slice) ==
    IF start = NoFragment
    THEN <<0>> \o (IF Len(slice) >= 1 /\ slice[1] \notin AlnumBytes THEN <<1>> ELSE <<>>)
    ELSE IF IsPrefixAt(start, slice, 0) THEN <<Len(start)>> ELSE <<>>

\* Length matched by the end fragment at offset pos of the slice, -1 if it
\* does not match: \z (end of the slice) first, then one non-alphanumeric byte.
PcreEndLen(end, slice, pos) ==
    IF end = NoFragment
    THEN IF pos = Len(slice) THEN 0
         ELSE IF slice[pos + 1] \notin AlnumBytes THEN 1 ELSE -1
    ELSE IF IsPrefixAt(end, slice, pos) THEN Len(end) ELSE -1

\* Body lengths after which the end fragment matches, start of length sl.
PcreBodyLens(p, slice, sl) ==
    {bl \in p.body.min..(Len(slice) - sl) :
        /\ \A x \in (sl + 1)..(sl + bl) : slice[x] \in p.body.cls
        /\ PcreEndLen(p.end, slice, sl + bl) # -1}

Max(S) == CHOOSE x \in S : \A y \in S : y <= x

\* The match object of pattern.pcre_regex().match(slice): the byte lengths of
\* the groups start, pattern, end of the first match in backtracking order
\* (first start alternative that leads to a match, greedy body), or NoMatch.
PcreMatch(p, slice) ==
    LET alts == PcreStartAlts(p.start, slice)
        good == {n \in 1..Len(alts) : PcreBodyLens(p, slice, alts[n]) # {}}
    IN  IF good = {} THEN NoMatch
        ELSE LET n  == CHOOSE x \in good : \A y \in good : x <= y
                 sl == alts[n]
                 bl == Max(PcreBodyLens(p, slice, sl))
             IN  [start |-> sl, pattern |-> bl, end |-> PcreEndLen(p.end, slice, sl + bl)]

\* Characters of bytes.decode('utf-8') for a well-formed buffer: the two-byte
\* sequence decodes to the single character "e'".
RECURSIVE DecodeUtf8(_)
DecodeUtf8(bs) ==
    IF bs = <<>> THEN <<>>
    ELSE IF bs[1] = "C3" THEN <<"e'">> \o DecodeUtf8(SubSeq(bs, 3, Len(bs)))
    ELSE <<bs[1]>> \o DecodeUtf8(Tail(bs))

\* str(bytes): the printable representation b'...' with \x escapes.
RECURSIVE ReprBody(_)
ReprBody(bs) ==
    IF bs = <<>> THEN <<>>
    ELSE (IF bs[1] \in {"C3", "A9"} THEN <<"\\", "x", bs[1]>> ELSE <<bs[1]>>)
         \o ReprBody(Tail(bs))

ReprBytes(bs) == <<"b", "'">> \o ReprBody(bs) \o <<"'">>

IsAscii(bs) == \A k \in 1..Len(bs) : bs[k] \notin {"C3", "A9"}

\* ------------------------------------------------------------------------
\* Patterns
\* ------------------------------------------------------------------------

\* An additional_match / additional_not_match entry is a literal, applied
\* with pcre.compile(pat).match(body): anchored at the start of the body.
\* BADREGEX is an entry PCRE cannot compile.
BADREGEX == <<"(">>

AdditionalHolds(pat, body) == IsPrefixAt(pat, body, 0)

Pattern(name, type, start, body, end, additional_matches, additional_not_matches, expected) ==
    [name |-> name, type |-> type, start |-> start, body |-> body, end |-> end,
     additional_matches |-> additional_matches,
     additional_not_matches |-> additional_not_matches,
     expected |-> expected]

\* Pattern.regex_string(): the fragments handed to the multi-pattern compiler.
regex_string(p) == [start |-> p.start, body |-> p.body, end |-> p.end]

\* Pattern.pcre_regex(): the same three fragments, as named groups.
pcre_regex(p) == [start |-> p.start, body |-> p.body, end |-> p.end]

Expectation(name, start_offset, end_offset) ==
    [name |-> name, start_offset |-> start_offset, end_offset |-> end_offset]

\* ------------------------------------------------------------------------
\* Program constants
\* ------------------------------------------------------------------------

PATTERNS_FILENAME == "patterns.yml"

FILENAME_EXCLUDES == {"README.md", PATTERNS_FILENAME}

PATH_EXCLUDES == {".git"}

\* ------------------------------------------------------------------------
\* State
\* ------------------------------------------------------------------------

VARIABLES
    args,            \* the parsed command line
    tree,            \* the directories under --tests that hold a patterns.yml
    pc,              \* position of the main thread
    exitCode,        \* process exit status once pc = "exit", -1 before
    RESULTS,         \* the global result store: pattern name -> list of matches
    origin,          \* history: for RESULTS[n][k], the hit and buffer it came from
    stdout,          \* lines printed by print()
    found_patterns,  \* test_patterns local
    ret,             \* test_patterns local, its return value
    dirIdx,          \* test_patterns: position in the os.walk
    patterns,        \* the pattern list in use
    db,              \* the compiled database: the regex list it was built from
    fileIdx,         \* position in the file loop of the current directory
    cur,             \* the buffer being scanned: path, content and scan flags
    pending,         \* hits of the running scan whose callback has not run yet
    patIdx,          \* position in the reconcile loop
    verdicts,        \* history: the value of ok after each reconciled pattern
    dr,              \* frame of dry_run_patterns: arguments, locals and caller
    rnd,             \* frame of random_test_patterns: size_read, and as history
                     \* the kind and size of every chunk handed to scan()
    rp,              \* frame of repo_test_patterns
    log,             \* records written through the logger
    LOCK,            \* the thread that holds LOCK, 0 when it is free
    threads          \* the callbacks of the running scan, one frame per worker thread

vars == <<args, tree, pc, exitCode, RESULTS, origin, stdout, found_patterns, ret,
          dirIdx, patterns, db, fileIdx, cur, pending, patIdx, verdicts, dr, rnd, rp,
          log, LOCK, threads>>

\* The locals of test_patterns.
tpVars == <<found_patterns, ret, dirIdx, fileIdx, patIdx, verdicts>>

\* The frames of the dry-run style modes.
modeVars == <<dr, rnd, rp, log>>

\* The lock and the worker threads of the matcher.
lockVars == <<LOCK, threads>>

\* ------------------------------------------------------------------------
\* hs_compile and scan
\* ------------------------------------------------------------------------

\* db.compile(regexes) raises when some expression is rejected.
HsCompiles(regexes) == \A k \in 1..Len(regexes) : regexes[k].body.hs

\* Mutant of hs_compile: an empty list compiles.
hs_compile_empty_ok(database, regex, labels) ==
    IF HsCompiles(regex) THEN [ok |-> TRUE, db |-> regex, reported |-> <<>>]
    ELSE LET bad == CHOOSE k \in 1..Len(regex) :
                        /\ ~regex[k].body.hs
                        /\ \A j \in 1..(k - 1) : regex[j].body.hs
         IN  [ok |-> FALSE,
              db |-> IF bad = 1 THEN database ELSE <<regex[bad - 1]>>,
              reported |-> <<labels[bad]>>]

\* hs_compile(db, regex, labels): the result, the database left behind and
\* the labels reported with LOG.error. An empty list returns False before
\* any compile. When the bulk compile raises, the expressions are compiled
\* one by one into the same database; the first one that raises is
\* reported and returns False.
hs_compile(database, regex, labels) ==
    IF Len(regex) = 0 THEN [ok |-> FALSE, db |-> database, reported |-> <<>>]
    ELSE IF HsCompiles(regex) THEN [ok |-> TRUE, db |-> regex, reported |-> <<>>]
    ELSE LET bad == CHOOSE k \in 1..Len(regex) :
                        /\ ~regex[k].body.hs
                        /\ \A j \in 1..(k - 1) : regex[j].body.hs
         IN  [ok |-> FALSE,
              db |-> IF bad = 1 THEN database ELSE <<regex[bad - 1]>>,
              reported |-> <<labels[bad]>>]

\* The records LOG.error writes for the reported labels.
CompileErrors(reported) ==
    [k \in 1..Len(reported) |-> [what |-> "compile error", type |-> reported[k]]]

\* db.scan(content, callback): the hits handed to the callback, each with the
\* 0-based index of its expression in the compiled list.
HsScan(database, content) ==
    UNION {{[rule_id |-> r - 1, start_offset |-> sp[1], end_offset |-> sp[2]] :
                sp \in HsHits(database[r], content)} : r \in 1..Len(database)}

\* ------------------------------------------------------------------------
\* The matcher callback: report_scan_results and pcre_result_match
\* ------------------------------------------------------------------------

\* path.name, and str(path); the random mode passes path = None.
PathName(path) == path.name

PathStr(path) == IF path = NoPath THEN <<"None">> ELSE <<path.dir, path.name>>

path_offsets_match(first, second) ==
    /\ first.name = second.name
    /\ first.start_offset = second.start_offset
    /\ first.end_offset = second.end_offset

\* The strings of `parts`: UTF-8, then ASCII, then str() of the bytes.
DecodeParts(gs, gp, ge) ==
    IF ValidUtf8(gs) /\ ValidUtf8(gp) /\ ValidUtf8(ge)
    THEN [start |-> DecodeUtf8(gs), pattern |-> DecodeUtf8(gp), end |-> DecodeUtf8(ge)]
    ELSE IF IsAscii(gs) /\ IsAscii(gp) /\ IsAscii(ge)
    THEN [start |-> gs, pattern |-> gp, end |-> ge]
    ELSE [start |-> ReprBytes(gs), pattern |-> ReprBytes(gp), end |-> ReprBytes(ge)]

\* Mutant of AdditionalFilter: any() instead of all() over additional_matches.
AdditionalFilterAnyOf(pattern, body, no_additional_matches) ==
    IF no_additional_matches THEN "keep"
    ELSE IF /\ pattern.additional_matches # <<>>
            /\ ~(\E k \in 1..Len(pattern.additional_matches) :
                     AdditionalHolds(pattern.additional_matches[k], body))
    THEN "drop"
    ELSE IF /\ pattern.additional_not_matches # <<>>
            /\ \E k \in 1..Len(pattern.additional_not_matches) :
                   AdditionalHolds(pattern.additional_not_matches[k], body)
    THEN "drop"
    ELSE "keep"

\* The additional-match filters on the body capture: "keep", "drop" (return
\* without recording) or "exit" (an entry does not compile: exit(1)).
AdditionalFilter(pattern, body, no_additional_matches) ==
    IF no_additional_matches THEN "keep"
    ELSE IF /\ pattern.additional_matches # <<>>
            /\ \E k \in 1..Len(pattern.additional_matches) :
                   pattern.additional_matches[k] = BADREGEX
    THEN "exit"
    ELSE IF /\ pattern.additional_matches # <<>>
            /\ ~(\A k \in 1..Len(pattern.additional_matches) :
                     AdditionalHolds(pattern.additional_matches[k], body))
    THEN "drop"
    ELSE IF /\ pattern.additional_not_matches # <<>>
            /\ \E k \in 1..Len(pattern.additional_not_matches) :
                   pattern.additional_not_matches[k] = BADREGEX
    THEN "exit"
    ELSE IF /\ pattern.additional_not_matches # <<>>
            /\ \E k \in 1..Len(pattern.additional_not_matches) :
                   AdditionalHolds(pattern.additional_not_matches[k], body)
    THEN "drop"
    ELSE "keep"

\* Mutant of FileDetails: the lengths of the decoded strings of `parts`, in
\* characters, are used instead of the byte lengths of the groups.
FileDetailsDecodedLen(path, start_offset, end_offset, gs, ge, dry_run) ==
    [name         |-> IF ~dry_run THEN PathName(path) ELSE PathStr(path),
     start_offset |-> start_offset + DecodedLen(gs),
     end_offset   |-> end_offset - DecodedLen(ge)]

\* Mutant of FileDetails: the raw start offset is published unadjusted.
FileDetailsRawStart(path, start_offset, end_offset, gs, ge, dry_run) ==
    [name         |-> IF ~dry_run THEN PathName(path) ELSE PathStr(path),
     start_offset |-> start_offset,
     end_offset   |-> end_offset - Len(ge)]

\* file_details of pcre_result_match; gs and ge are the bytes m.group('start')
\* and m.group('end').
FileDetails(path, start_offset, end_offset, gs, ge, dry_run) ==
    [name         |-> IF ~dry_run THEN PathName(path) ELSE PathStr(path),
     start_offset |-> start_offset + Len(gs),
     end_offset   |-> end_offset - Len(ge)]

\* The line print() writes for a dry-run hit.
OutputLine(pattern, file_details, parts, only_match) ==
    IF only_match THEN [pattern |-> parts.pattern]
    ELSE [name |-> file_details.name, start_offset |-> file_details.start_offset,
          end_offset |-> file_details.end_offset, start |-> parts.start,
          pattern |-> parts.pattern, end |-> parts.end, with |-> pattern.name]

StoreAppend(store, name, entry) ==
    IF name \in DOMAIN store
    THEN [store EXCEPT ![name] = Append(@, entry)]
    ELSE [n \in DOMAIN store \cup {name} |-> IF n = name THEN <<entry>> ELSE store[n]]

\* pcre_result_match: the effect of one callback on the store, on stdout and
\* on the process, for the hit content[start_offset:end_offset] of `pattern`.
\* f holds the scan flags, c the whole buffer.
pcre_result_match(pattern, path, c, start_offset, end_offset, f, store, hist, out) ==
    LET content == Slice(c, start_offset, end_offset)
        m       == PcreMatch(pcre_regex(pattern), content)
        same    == [RESULTS |-> store, origin |-> hist, stdout |-> out, status |-> "ok"]
    IN  IF m = NoMatch THEN same
        ELSE
        LET gs    == Slice(content, 0, m.start)
            gp    == Slice(content, m.start, m.start + m.pattern)
            ge    == Slice(content, m.start + m.pattern, m.start + m.pattern + m.end)
            parts == DecodeParts(gs, gp, ge)
            keep  == AdditionalFilter(pattern, gp, f.no_additional_matches)
            file_details == FileDetails(path, start_offset, end_offset, gs, ge, f.dry_run)
            entry == [file |-> file_details, groups |-> parts]
            from  == [content |-> c, start_offset |-> start_offset,
                      end_offset |-> end_offset,
                      captured |-> [start |-> gs, pattern |-> gp, end |-> ge]]
        IN  IF keep = "exit" THEN [same EXCEPT !.status = "exit"]
            ELSE IF keep = "drop" THEN same
            ELSE [RESULTS |-> IF f.write_to_results
                              THEN StoreAppend(store, pattern.name, entry) ELSE store,
                  origin  |-> IF f.write_to_results
                              THEN StoreAppend(hist, pattern.name, from) ELSE hist,
                  stdout  |-> IF f.dry_run
                              THEN Append(out, OutputLine(pattern, file_details, parts,
                                                          f.only_match))
                              ELSE out,
                  status  |-> "ok"]

\* report_scan_results: the callback of one hit. The rule id is resolved in
\* the pattern list bound into the callback; an id past its end raises.
report_scan_results(pats, path, c, f, hit, store, hist, out) ==
    IF hit.rule_id + 1 > Len(pats)
    THEN [RESULTS |-> store, origin |-> hist, stdout |-> out, status |-> "raise"]
    ELSE pcre_result_match(pats[hit.rule_id + 1], path, c, hit.start_offset,
                           hit.end_offset, f, store, hist, out)


\* ------------------------------------------------------------------------
\* parse_patterns
\* ------------------------------------------------------------------------

\* The patterns of a directory's patterns.yml, in file order, those the
\* include / exclude lists leave out skipped.
parse_patterns(dir, include, exclude) ==
    SelectSeq(dir.patterns,
              LAMBDA p : /\ (include = <<>> \/ \E k \in 1..Len(include) : include[k] = p.type)
                         /\ ~(\E k \in 1..Len(exclude) : exclude[k] = p.type))

RegexStrings(pats) == [k \in 1..Len(pats) |-> regex_string(pats[k])]

\* [pattern.type for pattern in patterns]
Labels(pats) == [k \in 1..Len(pats) |-> pats[k].type]

\* ------------------------------------------------------------------------
\* test_patterns: the fixture mode
\* ------------------------------------------------------------------------

\* The flags scan() binds into the callback in fixture mode.
FixtureFlags ==
    [verbose |-> args.verbose, quiet |-> args.quiet, write_to_results |-> TRUE,
     dry_run |-> FALSE, only_match |-> FALSE,
     no_additional_matches |-> args.no_additional_matches]

\* The files of a directory that are scanned.
FixtureFiles(dir) == SelectSeq(dir.files, LAMBDA f : f.name \notin FILENAME_EXCLUDES)

\* Entry of test_patterns: the store is reset, the locals initialised and a
\* fresh, uncompiled database created.
TestPatternsStart ==
    /\ pc = "main"
    /\ UNCHANGED lockVars
    /\ RESULTS' = <<>>
    /\ origin' = <<>>
    /\ found_patterns' = FALSE
    /\ ret' = TRUE
    /\ db' = <<>>
    /\ dirIdx' = 1
    /\ pc' = "tp_walk"
    /\ UNCHANGED <<args, tree, exitCode, stdout, patterns, fileIdx, cur, pending,
                   patIdx, verdicts, modeVars>>

\* One iteration of the os.walk loop up to the file loop: parse, skip an
\* empty set, compile; a compile failure exits unless quiet.
TestPatternsDir ==
    /\ pc = "tp_walk"
    /\ UNCHANGED lockVars
    /\ dirIdx <= Len(tree)
    /\ LET pats == parse_patterns(tree[dirIdx], args.include, args.exclude)
           comp == hs_compile(db, RegexStrings(pats), Labels(pats))
       IN  IF Len(pats) = 0
           THEN /\ patterns' = pats
                /\ dirIdx' = dirIdx + 1
                /\ UNCHANGED <<pc, exitCode, found_patterns, db, fileIdx, log>>
           ELSE /\ patterns' = pats
                /\ found_patterns' = TRUE
                /\ db' = comp.db
                /\ log' = log \o CompileErrors(comp.reported)
                /\ fileIdx' = 1
                /\ IF ~comp.ok /\ ~args.quiet
                   THEN pc' = "exit" /\ exitCode' = 1
                   ELSE pc' = "tp_files" /\ UNCHANGED exitCode
                /\ UNCHANGED dirIdx
    /\ UNCHANGED <<args, tree, RESULTS, origin, stdout, ret, cur, pending, patIdx,
                   verdicts, dr, rnd, rp>>

\* scan() of the next fixture file with the directory's database. Scanning
\* with a database that was never compiled raises.
TestPatternsScan ==
    /\ pc = "tp_files"
    /\ UNCHANGED lockVars
    /\ pending = {}
    /\ fileIdx <= Len(FixtureFiles(tree[dirIdx]))
    /\ LET file == FixtureFiles(tree[dirIdx])[fileIdx]
       IN  IF db = <<>>
           THEN /\ pc' = "exit" /\ exitCode' = 1
                /\ UNCHANGED <<cur, pending, fileIdx>>
           ELSE /\ cur' = [path |-> [dir |-> tree[dirIdx].name, name |-> file.name],
                           content |-> file.content, flags |-> FixtureFlags]
                /\ pending' = HsScan(db, file.content)
                /\ fileIdx' = fileIdx + 1
                /\ UNCHANGED <<pc, exitCode>>
    /\ UNCHANGED <<args, tree, RESULTS, origin, stdout, found_patterns, ret, dirIdx,
                   patterns, db, patIdx, verdicts, modeVars>>

\* The callback of one hit of the running scan, whatever the mode.
\* exit(1) in the callback, or an exception raised by it, ends the process.
Callback ==
    /\ pc \in {"tp_files", "dr_files", "rnd_binary", "rnd_ascii"}
    /\ UNCHANGED lockVars
    /\ \E hit \in pending :
        LET eff == report_scan_results(patterns, cur.path, cur.content, cur.flags, hit,
                                       RESULTS, origin, stdout)
        IN  /\ RESULTS' = eff.RESULTS
            /\ origin' = eff.origin
            /\ stdout' = eff.stdout
            /\ IF eff.status = "ok"
               THEN pending' = pending \ {hit} /\ UNCHANGED <<pc, exitCode>>
               ELSE pending' = {} /\ pc' = "exit" /\ exitCode' = 1
    /\ UNCHANGED <<args, tree, patterns, db, cur, tpVars, modeVars>>

\* All files of the directory are scanned: the reconcile loop starts.
TestPatternsScanned ==
    /\ pc = "tp_files"
    /\ UNCHANGED lockVars
    /\ pending = {}
    /\ fileIdx > Len(FixtureFiles(tree[dirIdx]))
    /\ patIdx' = 1
    /\ pc' = "tp_reconcile"
    /\ UNCHANGED <<args, tree, exitCode, RESULTS, origin, stdout, found_patterns, ret,
                   dirIdx, patterns, db, fileIdx, cur, pending, verdicts, modeVars>>

\* RESULTS.get(name, [])
ResultsGet(store, name) == IF name \in DOMAIN store THEN store[name] ELSE <<>>

\* Mutant of ReconcileOk: the check for unexpected results is left out.
ReconcileOkMissingOnly(pattern, store) ==
    LET pattern_results == IF pattern.name \in DOMAIN store THEN store[pattern.name] ELSE <<>>
    IN  \A e \in 1..Len(pattern.expected) :
            \E r \in 1..Len(pattern_results) :
                path_offsets_match(pattern.expected[e], pattern_results[r].file)

\* The value of ok for one pattern with expectations: every expectation is
\* found among the results stored under the pattern's name, and every such
\* result is one of the expectations.
ReconcileOk(pattern, store) ==
    LET pattern_results == ResultsGet(store, pattern.name)
    IN  /\ \A e \in 1..Len(pattern.expected) :
               \E r \in 1..Len(pattern_results) :
                   path_offsets_match(pattern.expected[e], pattern_results[r].file)
        /\ ~(\E r \in 1..Len(pattern_results) :
                 ~(\E e \in 1..Len(pattern.expected) :
                       path_offsets_match(pattern.expected[e], pattern_results[r].file)))

\* Mutant of PatternOk: a pattern without expectations is reconciled too, so
\* any match of it is unexpected.
PatternOkReconcileAll(pattern, store) ==
    LET pattern_results == IF pattern.name \in DOMAIN store THEN store[pattern.name] ELSE <<>>
    IN  /\ \A e \in 1..Len(pattern.expected) :
               \E r \in 1..Len(pattern_results) :
                   path_offsets_match(pattern.expected[e], pattern_results[r].file)
        /\ \A r \in 1..Len(pattern_results) :
               \E e \in 1..Len(pattern.expected) :
                   path_offsets_match(pattern.expected[e], pattern_results[r].file)

\* The value of ok at the end of one iteration of the reconcile loop: a
\* pattern without expectations is not reconciled.
PatternOk(pattern, store) ==
    IF pattern.expected # <<>> THEN ReconcileOk(pattern, store) ELSE TRUE

\* Mutant of RetAfter: ret = ok, so a later pass overwrites a failure.
RetAfterOverwrite(ok, r) == ok

\* if not ok: ret = False
RetAfter(ok, r) == IF ~ok THEN FALSE ELSE r

\* Mutant of ResultsAfterGet: RESULTS.pop(name, []) takes the list out of
\* the store.
ResultsAfterPop(store, name) == [n \in DOMAIN store \ {name} |-> store[n]]

\* The store after RESULTS.get(name, []): the dict is read, and a name that
\* is missing is not added.
ResultsAfterGet(store, name) == store

\* One iteration of the reconcile loop; the store is read for a pattern
\* with expectations.
TestPatternsReconcile ==
    /\ pc = "tp_reconcile"
    /\ UNCHANGED lockVars
    /\ patIdx <= Len(patterns)
    /\ LET pattern == patterns[patIdx]
           ok == PatternOk(pattern, RESULTS)
       IN  /\ ret' = RetAfter(ok, ret)
           /\ verdicts' = Append(verdicts, [dir |-> dirIdx, pattern |-> patIdx, ok |-> ok])
           /\ RESULTS' = IF pattern.expected # <<>>
                         THEN ResultsAfterGet(RESULTS, pattern.name) ELSE RESULTS
    /\ patIdx' = patIdx + 1
    /\ UNCHANGED <<args, tree, pc, exitCode, origin, stdout, found_patterns,
                   dirIdx, patterns, db, fileIdx, cur, pending, modeVars>>

\* The directory is reconciled: the walk goes on.
TestPatternsNextDir ==
    /\ pc = "tp_reconcile"
    /\ UNCHANGED lockVars
    /\ patIdx > Len(patterns)
    /\ dirIdx' = dirIdx + 1
    /\ pc' = "tp_walk"
    /\ UNCHANGED <<args, tree, exitCode, RESULTS, origin, stdout, found_patterns, ret,
                   patterns, db, fileIdx, cur, pending, patIdx, verdicts, modeVars>>

\* End of the walk: no pattern at all is a failure. test_patterns returns.
TestPatternsReturn ==
    /\ pc = "tp_walk"
    /\ UNCHANGED lockVars
    /\ dirIdx > Len(tree)
    /\ ret' = IF ~found_patterns THEN FALSE ELSE ret
    /\ pc' = "tp_returned"
    /\ UNCHANGED <<args, tree, exitCode, RESULTS, origin, stdout, found_patterns,
                   dirIdx, patterns, db, fileIdx, cur, pending, patIdx, verdicts, modeVars>>

\* ------------------------------------------------------------------------
\* main
\* ------------------------------------------------------------------------

\* Mutant of FixtureFailureFatal: --continue-on-fail is ignored.
FixtureFailureFatalAlways(r, continue_on_fail) == ~r

\* if not test_patterns(...) and not args.continue_on_fail
FixtureFailureFatal(r, continue_on_fail) == ~r /\ ~continue_on_fail

\* After test_patterns: a failed fixture test exits with 1 unless
\* --continue-on-fail is given.
MainAfterTest ==
    /\ pc = "tp_returned"
    /\ UNCHANGED lockVars
    /\ IF FixtureFailureFatal(ret, args.continue_on_fail)
       THEN pc' = "exit" /\ exitCode' = 1
       ELSE pc' = "main_build" /\ UNCHANGED exitCode
    /\ UNCHANGED <<args, tree, RESULTS, origin, stdout, patterns, db, cur, pending,
                   tpVars, modeVars>>

\* The patterns of all directories, in walk order.
RECURSIVE AllPatterns(_, _, _)
AllPatterns(dirs, include, exclude) ==
    IF dirs = <<>> THEN <<>>
    ELSE parse_patterns(Head(dirs), include, exclude)
         \o AllPatterns(Tail(dirs), include, exclude)

\* build_hyperscan_patterns and the test of its result in main: a fresh
\* database compiled from the union of all patterns; on a compile failure
\* None is returned, and main exits with 1, unless quiet.
MainBuild ==
    /\ pc = "main_build"
    /\ UNCHANGED lockVars
    /\ LET pats == AllPatterns(tree, args.include, args.exclude)
           comp == hs_compile(<<>>, RegexStrings(pats), Labels(pats))
       IN  /\ patterns' = pats
           /\ db' = comp.db
           /\ log' = log \o CompileErrors(comp.reported)
           /\ IF ~comp.ok /\ ~args.quiet
              THEN pc' = "exit" /\ exitCode' = 1
              ELSE pc' = "main_extra" /\ UNCHANGED exitCode
    /\ UNCHANGED <<args, tree, RESULTS, origin, stdout, cur, pending, tpVars, dr, rnd,
                   rp>>

\* ------------------------------------------------------------------------
\* dry_run_patterns
\* ------------------------------------------------------------------------

\* Mutant of DryRunEnter: the store is reset whatever clear_results says.
DryRunEnterAlwaysClear(files, quiet, clear_results, size_read, files_read, caller) ==
    /\ RESULTS' = <<>>
    /\ origin' = <<>>
    /\ dr' = [files |-> files, idx |-> 1, quiet |-> quiet,
              clear_results |-> clear_results, size_read |-> size_read,
              files_read |-> files_read, caller |-> caller]
    /\ pc' = "dr_files"

\* Entry of dry_run_patterns on the files of a tree: the store is reset when
\* clear_results is set.
DryRunEnter(files, quiet, clear_results, size_read, files_read, caller) ==
    /\ RESULTS' = IF clear_results THEN <<>> ELSE RESULTS
    /\ origin' = IF clear_results THEN <<>> ELSE origin
    /\ dr' = [files |-> files, idx |-> 1, quiet |-> quiet,
              clear_results |-> clear_results, size_read |-> size_read,
              files_read |-> files_read, caller |-> caller]
    /\ pc' = "dr_files"

\* main: --extra runs dry_run_patterns with the defaults clear_results = True,
\* size_read = 0, files_read = 0.
MainExtra ==
    /\ pc = "main_extra"
    /\ UNCHANGED lockVars
    /\ IF args.extra.given
       THEN DryRunEnter(args.extra.files, args.quiet, TRUE, 0, 0, "main")
       ELSE pc' = "main_random" /\ UNCHANGED <<RESULTS, origin, dr>>
    /\ UNCHANGED <<args, tree, exitCode, stdout, patterns, db, cur, pending, tpVars,
                   rnd, rp, log>>

\* A directory is walked into unless one of the parents of its path is named
\* in PATH_EXCLUDES (Path.parents does not hold the path itself).
DirExcluded(dirpath) ==
    \E k \in 1..(Len(dirpath) - 1) : dirpath[k] \in PATH_EXCLUDES

\* The flags scan() binds into the callback in dry_run_patterns.
DryRunFlags ==
    [verbose |-> args.verbose, quiet |-> dr.quiet,
     write_to_results |-> (~dr.clear_results) \/ (~dr.quiet),
     dry_run |-> TRUE, only_match |-> args.only_match,
     no_additional_matches |-> args.no_additional_matches]

\* The next file of the walk: skipped when its directory is excluded or
\* when it cannot be read, else counted and scanned. A database that was
\* never compiled makes scan() raise hyperscan.error, which is not caught.
DryRunFile ==
    /\ pc = "dr_files"
    /\ UNCHANGED lockVars
    /\ pending = {}
    /\ dr.idx <= Len(dr.files)
    /\ LET file == dr.files[dr.idx]
       IN  IF DirExcluded(file.dirpath) \/ ~file.readable
           THEN /\ dr' = [dr EXCEPT !.idx = @ + 1]
                /\ UNCHANGED <<pc, exitCode, cur, pending>>
           ELSE IF db = <<>>
           THEN /\ dr' = [dr EXCEPT !.size_read = @ + Len(file.content),
                                    !.files_read = @ + 1]
                /\ pc' = "exit" /\ exitCode' = 1
                /\ UNCHANGED <<cur, pending>>
           ELSE /\ dr' = [dr EXCEPT !.idx = @ + 1,
                                    !.size_read = @ + Len(file.content),
                                    !.files_read = @ + 1]
                /\ cur' = [path |-> [dir |-> file.dirpath, name |-> file.name],
                           content |-> file.content, flags |-> DryRunFlags]
                /\ pending' = HsScan(db, file.content)
                /\ UNCHANGED <<pc, exitCode>>
    /\ UNCHANGED <<args, tree, RESULTS, origin, stdout, patterns, db, tpVars, rnd, rp, log>>

\* Number of stored matches per pattern name, as print_summary logs them.
HitCounts(store) == [n \in DOMAIN store |-> Len(store[n])]

\* print_summary(size_read, files_read)
SummaryRecord(size_read, files_read, store) ==
    [what |-> "summary", size_read |-> size_read, files_read |-> files_read,
     counts |-> HitCounts(store)]

\* End of the walk: the summary unless quiet, and the return of
\* (size_read, files_read) to the caller. repo_test_patterns adds the
\* returned totals to its own and moves to the next repository.
DryRunReturn ==
    /\ pc = "dr_files"
    /\ UNCHANGED lockVars
    /\ pending = {}
    /\ dr.idx > Len(dr.files)
    /\ log' = IF ~dr.quiet
              THEN Append(log, SummaryRecord(dr.size_read, dr.files_read, RESULTS))
              ELSE log
    /\ IF dr.caller = "main"
       THEN pc' = "main_random" /\ UNCHANGED rp
       ELSE /\ rp' = [rp EXCEPT !.idx = @ + 1,
                                !.size_read = @ + dr.size_read,
                                !.files_read = @ + dr.files_read]
            /\ pc' = "rp_loop"
    /\ UNCHANGED <<args, tree, exitCode, RESULTS, origin, stdout, patterns, db, cur,
                   pending, tpVars, dr, rnd>>

\* ------------------------------------------------------------------------
\* random_test_patterns
\* ------------------------------------------------------------------------

binary_goal == 1000000000

ascii_goal == 1000000000

binary_chunk_size == 100000000

ascii_chunk_size == 100000000

\* A chunk of random data is represented by the short buffer that holds its
\* hits. Random binary data is not well-formed UTF-8 in general.
BinaryChunks == {<<"A9">>, <<"_", "a", "_">>}

AsciiChunks == {<<"_">>, <<"_", "a", "_">>}

\* The flags scan() binds into the callback in random_test_patterns.
RandomFlags ==
    [verbose |-> args.verbose, quiet |-> args.quiet, write_to_results |-> TRUE,
     dry_run |-> TRUE, only_match |-> args.only_match,
     no_additional_matches |-> args.no_additional_matches]

\* main: --random enters random_test_patterns, which resets the store.
MainRandom ==
    /\ pc = "main_random"
    /\ UNCHANGED lockVars
    /\ IF args.random
       THEN /\ RESULTS' = <<>>
            /\ origin' = <<>>
            /\ rnd' = [size_read |-> 0, fed |-> <<>>]
            /\ pc' = "rnd_binary"
       ELSE pc' = "main_repos" /\ UNCHANGED <<RESULTS, origin, rnd>>
    /\ UNCHANGED <<args, tree, exitCode, stdout, patterns, db, cur, pending, tpVars,
                   dr, rp, log>>

\* scan() of one chunk; a database never compiled makes it raise.
RandomScan(content) ==
    IF db = <<>>
    THEN /\ pc' = "exit" /\ exitCode' = 1
         /\ UNCHANGED <<cur, pending>>
    ELSE /\ cur' = [path |-> NoPath, content |-> content, flags |-> RandomFlags]
         /\ pending' = HsScan(db, content)
         /\ UNCHANGED <<pc, exitCode>>

\* Mutant of BinaryLoopGuard: the loop runs once more at the goal.
BinaryLoopGuardInclusive(size_read) == size_read <= binary_goal

\* while size_read < binary_goal
BinaryLoopGuard(size_read) == size_read < binary_goal

\* while size_read < binary_goal + ascii_goal
AsciiLoopGuard(size_read) == size_read < binary_goal + ascii_goal

\* A chunk handed to scan(): randbytes(n) is n bytes, and n printable
\* characters encode to n bytes.
Chunk(kind, size) == [kind |-> kind, size |-> size]

\* One iteration of the random binary loop.
RandomBinary ==
    /\ pc = "rnd_binary"
    /\ UNCHANGED lockVars
    /\ pending = {}
    /\ BinaryLoopGuard(rnd.size_read)
    /\ \E content \in BinaryChunks : RandomScan(content)
    /\ rnd' = [rnd EXCEPT !.size_read = @ + binary_chunk_size,
                          !.fed = Append(@, Chunk("binary", binary_chunk_size))]
    /\ UNCHANGED <<args, tree, RESULTS, origin, stdout, patterns, db, tpVars, dr, rp, log>>

\* The binary goal is reached: the ASCII loop starts.
RandomBinaryDone ==
    /\ pc = "rnd_binary"
    /\ UNCHANGED lockVars
    /\ pending = {}
    /\ ~BinaryLoopGuard(rnd.size_read)
    /\ pc' = "rnd_ascii"
    /\ UNCHANGED <<args, tree, exitCode, RESULTS, origin, stdout, patterns, db, cur,
                   pending, tpVars, modeVars>>

\* One iteration of the random printable ASCII loop.
RandomAscii ==
    /\ pc = "rnd_ascii"
    /\ UNCHANGED lockVars
    /\ pending = {}
    /\ AsciiLoopGuard(rnd.size_read)
    /\ \E content \in AsciiChunks : RandomScan(content)
    /\ rnd' = [rnd EXCEPT !.size_read = @ + ascii_chunk_size,
                          !.fed = Append(@, Chunk("ascii", ascii_chunk_size))]
    /\ UNCHANGED <<args, tree, RESULTS, origin, stdout, patterns, db, tpVars, dr, rp, log>>

\* Both goals are reached: the hit counts are logged and the mode returns.
RandomReturn ==
    /\ pc = "rnd_ascii"
    /\ UNCHANGED lockVars
    /\ pending = {}
    /\ ~AsciiLoopGuard(rnd.size_read)
    /\ log' = Append(log, [what |-> "random summary", size_read |-> rnd.size_read,
                           counts |-> HitCounts(RESULTS)])
    /\ pc' = "main_repos"
    /\ UNCHANGED <<args, tree, exitCode, RESULTS, origin, stdout, patterns, db, cur,
                   pending, tpVars, dr, rnd, rp>>

\* ------------------------------------------------------------------------
\* repo_test_patterns
\* ------------------------------------------------------------------------

\* main: --repos enters repo_test_patterns, which resets the store; a list
\* file that cannot be opened exits with 1. Without --repos main returns.
MainRepos ==
    /\ pc = "main_repos"
    /\ UNCHANGED lockVars
    /\ IF ~args.repos.given
       THEN pc' = "exit" /\ exitCode' = 0 /\ UNCHANGED <<RESULTS, origin, rp>>
       ELSE /\ RESULTS' = <<>>
            /\ origin' = <<>>
            /\ rp' = [idx |-> 1, size_read |-> 0, files_read |-> 0]
            /\ IF args.repos.readable
               THEN pc' = "rp_loop" /\ UNCHANGED exitCode
               ELSE pc' = "exit" /\ exitCode' = 1
    /\ UNCHANGED <<args, tree, stdout, patterns, db, cur, pending, tpVars, dr, rnd, log>>

\* Mutant of ClonePathFiles: a repository whose clone fails is not walked.
ClonePathFilesSkipFailed(repo) == IF repo.clone_ok THEN repo.files ELSE <<>>

\* The files os.walk finds at the clone path after Repo.clone_from: those
\* of the fresh clone, or after a GitCommandError whatever the path held
\* before, an earlier clone included.
ClonePathFiles(repo) == IF repo.clone_ok THEN repo.files ELSE repo.cached

\* One repository: the clone is attempted, a GitCommandError is logged, and
\* whatever lies at the clone path is scanned with accumulation, quietly,
\* the running totals passed in.
RepoNext ==
    /\ pc = "rp_loop"
    /\ UNCHANGED lockVars
    /\ rp.idx <= Len(args.repos.list)
    /\ LET repo == args.repos.list[rp.idx]
       IN  DryRunEnter(ClonePathFiles(repo), TRUE, FALSE, rp.size_read, rp.files_read,
                       "repos")
    /\ UNCHANGED <<args, tree, exitCode, stdout, patterns, db, cur, pending, tpVars,
                   rnd, rp, log>>

\* All repositories are done: the summary is printed and main returns.
RepoReturn ==
    /\ pc = "rp_loop"
    /\ UNCHANGED lockVars
    /\ rp.idx > Len(args.repos.list)
    /\ log' = Append(log, SummaryRecord(rp.size_read, rp.files_read, RESULTS))
    /\ pc' = "exit"
    /\ exitCode' = 0
    /\ UNCHANGED <<args, tree, RESULTS, origin, stdout, patterns, db, cur, pending,
                   tpVars, dr, rnd, rp>>

\* ------------------------------------------------------------------------
\* Inputs
\* ------------------------------------------------------------------------

\* a+ : one or more alphanumerics.
BodyA == [cls |-> {"a"}, min |-> 1, hs |-> TRUE]

\* [a ]+ : a body that may contain the blank.
BodyW == [cls |-> {"a", "_"}, min |-> 1, hs |-> TRUE]

\* A body PCRE compiles and the multi-pattern compiler rejects.
BodyBad == [cls |-> {"a"}, min |-> 1, hs |-> FALSE]

\* The two-byte character as a literal start delimiter.
StartU == <<"C3", "A9">>

Contents == {c \in SeqsUpTo(Bytes, MaxLen) : ValidUtf8(c)}

AsciiContents == SeqsUpTo({"a", "_"}, MaxLen)

RECURSIVE SetToSeq(_)
SetToSeq(S) ==
    IF S = {} THEN <<>>
    ELSE LET x == CHOOSE y \in S : TRUE IN <<x>> \o SetToSeq(S \ {x})

\* Expectations on the fixture file f1: start_offset >= -1, end_offset
\* positive or -1, as Expected.__post_init__ admits them.
Expectations ==
    {Expectation("f1", s, e) : s \in -1..(MaxLen - 1), e \in {-1} \cup 1..MaxLen}

ExpectedLists ==
    {SetToSeq(S) : S \in {T \in SUBSET Expectations : Cardinality(T) <= MaxExpected}}

File(name, content) == [name |-> name, content |-> content]

Dir(name, pats, files) == [name |-> name, patterns |-> pats, files |-> files]

\* A file met by os.walk: the components of its directory's path, its name,
\* its bytes, and whether it can be opened and read.
WalkFile(dirpath, name, content, readable) ==
    [dirpath |-> dirpath, name |-> name, content |-> content, readable |-> readable]

\* --extra and --repos not given.
NoExtra == [given |-> FALSE, files |-> <<>>]

NoRepos == [given |-> FALSE, readable |-> FALSE, list |-> <<>>]

DefaultArgs ==
    [verbose |-> FALSE, quiet |-> FALSE, no_additional_matches |-> FALSE,
     include |-> <<>>, exclude |-> <<>>, continue_on_fail |-> FALSE,
     only_match |-> FALSE, extra |-> NoExtra, random |-> FALSE, repos |-> NoRepos]

\* One directory, one pattern a+ with default delimiters, any expectations,
\* one fixture file of any ASCII content.
ReconcileInputs ==
    {[args |-> DefaultArgs,
      tree |-> <<Dir("d1", <<Pattern("n1", "t1", NoFragment, BodyA, NoFragment, <<>>, <<>>, ex)>>,
                     <<File("f1", c)>>)>>] :
        ex \in ExpectedLists, c \in AsciiContents}

AdditionalLists ==
    {<<>>, <<<<"a">>>>, <<<<"_">>>>, <<<<"a", "a">>>>, <<<<"a">>, <<"a", "a">>>>, <<BADREGEX>>}

\* One directory, one pattern without expectations, any delimiters, body and
\* filters, one fixture file of any content.
RefineInputs ==
    {[args |-> [DefaultArgs EXCEPT !.no_additional_matches = na],
      tree |-> <<Dir("d1", <<Pattern("n1", "t1", st, bd, NoFragment, am, anm, <<>>)>>,
                     <<File("f1", c)>>)>>] :
        na \in BOOLEAN, st \in {NoFragment, StartU}, bd \in {BodyA, BodyW},
        am \in AdditionalLists, anm \in AdditionalLists, c \in Contents}

\* Small directories, all with the fixture file f1 = " a ", a README.md and
\* the patterns.yml itself:
\* a set that passes, one that fails, one without expectations, one whose
\* second pattern does not compile, one that reuses the name n1, and a
\* patterns.yml without patterns.
SmallDirs ==
    LET f  == <<File("README.md", <<"_", "a", "_">>), File(PATTERNS_FILENAME, <<"a">>),
                File("f1", <<"_", "a", "_">>)>>
        ok == <<Expectation("f1", 1, 2)>>
        ko == <<Expectation("f1", 0, 1)>>
    IN  {Dir("pass", <<Pattern("n1", "t1", NoFragment, BodyA, NoFragment, <<>>, <<>>, ok)>>, f),
         Dir("fail", <<Pattern("n2", "t2", NoFragment, BodyA, NoFragment, <<>>, <<>>, ko)>>, f),
         Dir("info", <<Pattern("n3", "t3", NoFragment, BodyA, NoFragment, <<>>, <<>>, <<>>)>>, f),
         Dir("bad",  <<Pattern("n4", "t4", NoFragment, BodyA, NoFragment, <<>>, <<>>, ok),
                       Pattern("n5", "t5", NoFragment, BodyBad, NoFragment, <<>>, <<>>, <<>>)>>, f),
         Dir("same", <<Pattern("n1", "t6", NoFragment, BodyW, NoFragment, <<>>, <<>>,
                               <<Expectation("f1", 0, 3)>>)>>, f),
         Dir("none", <<>>, f)}

\* Trees of up to MaxDirs small directories, with or without quiet and
\* --continue-on-fail.
TreeInputs ==
    {[args |-> [DefaultArgs EXCEPT !.quiet = q, !.continue_on_fail = cf],
      tree |-> t] :
        q \in BOOLEAN, cf \in BOOLEAN,
        t \in UNION {[1..n -> SmallDirs] : n \in 0..MaxDirs}}

\* An external tree: a file with a hit at the top, an unreadable file, a
\* file directly in .git and one below .git.
ExtraTree ==
    [given |-> TRUE,
     files |-> <<WalkFile(<<"x">>, "e1", <<"_", "a", "_">>, TRUE),
                 WalkFile(<<"x">>, "e2", <<"a">>, FALSE),
                 WalkFile(<<"x", ".git">>, "HEAD", <<"a", "_">>, TRUE),
                 WalkFile(<<"x", ".git", "o">>, "e3", <<"a">>, TRUE)>>]

\* Repositories: one whose clone holds a file with a hit, one with two
\* files, one whose clone fails and whose path holds an earlier clone.
SmallRepos ==
    {[name |-> "o/r1", clone_ok |-> TRUE, cached |-> <<>>,
      files |-> <<WalkFile(<<"r1">>, "g1", <<"_", "a", "_">>, TRUE)>>],
     [name |-> "o/r2", clone_ok |-> TRUE, cached |-> <<>>,
      files |-> <<WalkFile(<<"r2">>, "g2", <<"a">>, TRUE),
                  WalkFile(<<"r2">>, "g3", <<"_">>, TRUE)>>],
     [name |-> "o/r3", clone_ok |-> FALSE, files |-> <<>>,
      cached |-> <<WalkFile(<<"r3">>, "g4", <<"a", "a">>, TRUE)>>]}

RepoLists ==
    {[given |-> TRUE, readable |-> rd, list |-> l] :
        rd \in BOOLEAN, l \in UNION {[1..n -> SmallRepos] : n \in 0..MaxRepos}}

\* One small directory and any choice of --extra and --repos after the
\* fixture test.
ModeInputs ==
    {[args |-> [DefaultArgs EXCEPT !.quiet = q, !.continue_on_fail = TRUE,
                                   !.only_match = om, !.extra = ex, !.repos = rl],
      tree |-> t] :
        q \in BOOLEAN, om \in BOOLEAN, ex \in {NoExtra, ExtraTree},
        rl \in {NoRepos} \cup RepoLists,
        t \in {<<d>> : d \in {x \in SmallDirs : x.name \in {"pass", "same"}}}}

\* The passing directory with --random, alone or between --extra and --repos.
RandomInputs ==
    {[args |-> [DefaultArgs EXCEPT !.quiet = q, !.random = TRUE, !.extra = ex,
                                   !.repos = rl],
      tree |-> <<d>>] :
        q \in BOOLEAN, ex \in {NoExtra, ExtraTree},
        rl \in {NoRepos} \cup {r \in RepoLists : r.readable /\ Len(r.list) = 1},
        d \in {x \in SmallDirs : x.name = "pass"}}

\* The failing directory with --continue-on-fail, --extra and a list of one
\* repository.
ContinueInputs ==
    {[args |-> [DefaultArgs EXCEPT !.quiet = q, !.continue_on_fail = TRUE,
                                   !.extra = ExtraTree, !.repos = rl],
      tree |-> <<d>>] :
        q \in BOOLEAN,
        rl \in {r \in RepoLists : r.readable /\ Len(r.list) = 1},
        d \in {x \in SmallDirs : x.name = "fail"}}

Inputs ==
    ReconcileInputs \cup RefineInputs \cup TreeInputs \cup ModeInputs \cup RandomInputs
        \cup ContinueInputs

\* The process after argument parsing: nothing run yet, RESULTS = {}.
Init ==
    /\ \E i \in Inputs : args = i.args /\ tree = i.tree
    /\ pc = "main"
    /\ exitCode = -1
    /\ RESULTS = <<>>
    /\ origin = <<>>
    /\ stdout = <<>>
    /\ found_patterns = FALSE
    /\ ret = TRUE
    /\ dirIdx = 1
    /\ patterns = <<>>
    /\ db = <<>>
    /\ fileIdx = 1
    /\ cur = [path |-> NoPath, content |-> <<>>, flags |-> FixtureFlags]
    /\ pending = {}
    /\ patIdx = 1
    /\ verdicts = <<>>
    /\ dr = [files |-> <<>>, idx |-> 1, quiet |-> FALSE, clear_results |-> TRUE,
             size_read |-> 0, files_read |-> 0, caller |-> "main"]
    /\ rnd = [size_read |-> 0, fed |-> <<>>]
    /\ rp = [idx |-> 1, size_read |-> 0, files_read |-> 0]
    /\ log = <<>>
    /\ LOCK = 0
    /\ threads = <<>>

Next ==
    \/ TestPatternsStart
    \/ TestPatternsDir
    \/ TestPatternsScan
    \/ Callback
    \/ TestPatternsScanned
    \/ TestPatternsReconcile
    \/ TestPatternsNextDir
    \/ TestPatternsReturn
    \/ MainAfterTest
    \/ MainBuild
    \/ MainExtra
    \/ DryRunFile
    \/ DryRunReturn
    \/ MainRandom
    \/ RandomBinary
    \/ RandomBinaryDone
    \/ RandomAscii
    \/ RandomReturn
    \/ MainRepos
    \/ RepoNext
    \/ RepoReturn

Spec == Init /\ [][Next]_vars

\* ------------------------------------------------------------------------
\* The matcher's worker threads: a scan of test_patterns and then a scan of
\* dry_run_patterns, the callbacks of each scan run by concurrent threads
\* ------------------------------------------------------------------------

MaxThreads == 2

\* The frame of a thread that runs the callback of one hit: its position in
\* pcre_result_match, the outcome of `pattern.name not in RESULTS` and
\* whether its append has run.
Frame(hit) == [hit |-> hit, at |-> "match", missing |-> FALSE, appended |-> FALSE]

\* What the callback of thread t computes before it takes LOCK: the match,
\* the filters, file_details and parts.
ThreadEffect(t) ==
    report_scan_results(patterns, cur.path, cur.content, cur.flags, threads[t].hit,
                        <<>>, <<>>, <<>>)

ThreadName(t) == patterns[threads[t].hit.rule_id + 1].name

\* The dict the thread appends under LOCK.
ThreadEntry(t) == ThreadEffect(t).RESULTS[ThreadName(t)][1]

\* Mutant of CanAcquire: `with LOCK` never blocks.
CanAcquireAlways(t) == TRUE

\* `with LOCK` blocks until the lock is free.
CanAcquire(t) == LOCK = 0

\* global RESULTS; RESULTS = {} at the start of test_patterns and of
\* dry_run_patterns (clear_results is True when main calls it). The main
\* thread does not take LOCK; no scan is running.
ConcReset ==
    /\ pc \in {"c_test", "c_dry"}
    /\ RESULTS' = <<>>
    /\ threads' = <<>>
    /\ dr' = [dr EXCEPT !.quiet = args.quiet, !.clear_results = TRUE]
    /\ pc' = IF pc = "c_test" THEN "c_test_scan" ELSE "c_dry_scan"
    /\ UNCHANGED <<args, tree, exitCode, origin, stdout, patterns, db, cur, pending,
                   tpVars, rnd, rp, log, LOCK>>

\* scan(): the matcher hands every hit of the buffer to a worker thread.
ConcScan ==
    /\ pc \in {"c_test_scan", "c_dry_scan"}
    /\ LET file == IF pc = "c_test_scan" THEN tree[1].files[1] ELSE args.extra.files[1]
           hits == SetToSeq(HsScan(db, file.content))
       IN  /\ cur' = IF pc = "c_test_scan"
                     THEN [path |-> [dir |-> tree[1].name, name |-> file.name],
                           content |-> file.content, flags |-> FixtureFlags]
                     ELSE [path |-> [dir |-> file.dirpath, name |-> file.name],
                           content |-> file.content, flags |-> DryRunFlags]
           /\ threads' = [k \in 1..Len(hits) |-> Frame(hits[k])]
    /\ pc' = IF pc = "c_test_scan" THEN "c_test_wait" ELSE "c_dry_wait"
    /\ UNCHANGED <<args, tree, exitCode, RESULTS, origin, stdout, patterns, db, pending,
                   tpVars, modeVars, LOCK>>

\* db.scan() returns once every callback has returned.
ConcScanned ==
    /\ pc \in {"c_test_wait", "c_dry_wait"}
    /\ \A t \in DOMAIN threads : threads[t].at = "done"
    /\ pc' = IF pc = "c_test_wait" THEN "c_dry" ELSE "c_done"
    /\ UNCHANGED <<args, tree, exitCode, RESULTS, origin, stdout, patterns, db, cur,
                   pending, tpVars, modeVars, lockVars>>

concFrame == <<args, tree, pc, exitCode, origin, patterns, db, cur, pending, tpVars,
               modeVars>>

\* The PCRE match, the filters, file_details and parts: the thread returns
\* when there is nothing to record, else goes on to `with LOCK`.
ThreadMatch(t) ==
    /\ threads[t].at = "match"
    /\ threads' = [threads EXCEPT ![t].at =
                       IF ThreadEffect(t).RESULTS = <<>> THEN "done" ELSE "acquire"]
    /\ UNCHANGED <<concFrame, RESULTS, stdout, LOCK>>

ThreadAcquire(t) ==
    /\ threads[t].at = "acquire"
    /\ CanAcquire(t)
    /\ LOCK' = t
    /\ threads' = [threads EXCEPT ![t].at = "check"]
    /\ UNCHANGED <<concFrame, RESULTS, stdout>>

\* if pattern.name not in RESULTS
ThreadCheck(t) ==
    /\ threads[t].at = "check"
    /\ threads' = [threads EXCEPT ![t].at = "create",
                                  ![t].missing = ThreadName(t) \notin DOMAIN RESULTS]
    /\ UNCHANGED <<concFrame, RESULTS, stdout, LOCK>>

\* RESULTS[pattern.name] = []
ThreadCreate(t) ==
    /\ threads[t].at = "create"
    /\ RESULTS' = IF threads[t].missing
                  THEN [n \in DOMAIN RESULTS \cup {ThreadName(t)} |->
                            IF n = ThreadName(t) THEN <<>> ELSE RESULTS[n]]
                  ELSE RESULTS
    /\ threads' = [threads EXCEPT ![t].at = "append"]
    /\ UNCHANGED <<concFrame, stdout, LOCK>>

\* RESULTS[pattern.name].append({'file': file_details, 'groups': parts})
ThreadAppend(t) ==
    /\ threads[t].at = "append"
    /\ RESULTS' = [RESULTS EXCEPT ![ThreadName(t)] = Append(@, ThreadEntry(t))]
    /\ threads' = [threads EXCEPT ![t].at = "release", ![t].appended = TRUE]
    /\ UNCHANGED <<concFrame, stdout, LOCK>>

\* End of the `with LOCK` block; in a dry run the print block follows.
ThreadRelease(t) ==
    /\ threads[t].at = "release"
    /\ LOCK' = IF LOCK = t THEN 0 ELSE LOCK
    /\ threads' = [threads EXCEPT ![t].at = IF cur.flags.dry_run THEN "print" ELSE "done"]
    /\ UNCHANGED <<concFrame, RESULTS, stdout>>

\* with LOCK: print(...), the lock taken and released around the one call.
ThreadPrint(t) ==
    /\ threads[t].at = "print"
    /\ CanAcquire(t)
    /\ stdout' = Append(stdout, ThreadEffect(t).stdout[1])
    /\ threads' = [threads EXCEPT ![t].at = "done"]
    /\ UNCHANGED <<concFrame, RESULTS, LOCK>>

\* The two patterns of the concurrent scans: a+ with a filter, and [a_]+
\* under the name n.
ConcPatterns(n) ==
    <<Pattern("n1", "t1", NoFragment, BodyA, NoFragment, <<>>, <<<<"a", "a">>>>, <<>>),
      Pattern(n, "t2", NoFragment, BodyW, NoFragment, <<>>, <<>>, <<>>)>>

\* The buffers in which the two patterns have between two and MaxThreads
\* hits.
ConcContents ==
    {c \in AsciiContents :
        Cardinality(HsScan(RegexStrings(ConcPatterns("n1")), c)) \in 2..MaxThreads}

\* The two patterns under one name or under two, a fixture file and a file
\* of the extra directory no longer than the fixture.
ConcInputs ==
    UNION {{[args |-> [DefaultArgs EXCEPT
                           !.extra = [given |-> TRUE,
                                      files |-> <<WalkFile(<<"x">>, "e1", c2, TRUE)>>]],
             tree |-> <<Dir("d1", ConcPatterns(n), <<File("f1", c1)>>)>>] :
               n \in {"n1", "n2"},
               c2 \in {c \in ConcContents : Len(c) < Len(c1) \/ c = c1}} :
           c1 \in ConcContents}

\* main() about to call test_patterns, the patterns parsed and compiled.
InitConc ==
    /\ \E i \in ConcInputs :
           /\ args = i.args
           /\ tree = i.tree
           /\ patterns = i.tree[1].patterns
           /\ db = RegexStrings(i.tree[1].patterns)
    /\ pc = "c_test"
    /\ exitCode = -1
    /\ RESULTS = <<>>
    /\ origin = <<>>
    /\ stdout = <<>>
    /\ found_patterns = TRUE
    /\ ret = TRUE
    /\ dirIdx = 1
    /\ fileIdx = 1
    /\ cur = [path |-> NoPath, content |-> <<>>, flags |-> FixtureFlags]
    /\ pending = {}
    /\ patIdx = 1
    /\ verdicts = <<>>
    /\ dr = [files |-> <<>>, idx |-> 1, quiet |-> FALSE, clear_results |-> TRUE,
             size_read |-> 0, files_read |-> 0, caller |-> "main"]
    /\ rnd = [size_read |-> 0, fed |-> <<>>]
    /\ rp = [idx |-> 1, size_read |-> 0, files_read |-> 0]
    /\ log = <<>>
    /\ LOCK = 0
    /\ threads = <<>>

NextConc ==
    \/ ConcReset
    \/ ConcScan
    \/ ConcScanned
    \/ \E t \in DOMAIN threads : ThreadMatch(t)
    \/ \E t \in DOMAIN threads : ThreadAcquire(t)
    \/ \E t \in DOMAIN threads : ThreadCheck(t)
    \/ \E t \in DOMAIN threads : ThreadCreate(t)
    \/ \E t \in DOMAIN threads : ThreadAppend(t)
    \/ \E t \in DOMAIN threads : ThreadRelease(t)
    \/ \E t \in DOMAIN threads : ThreadPrint(t)

SpecConc == InitConc /\ [][NextConc]_vars

\* ------------------------------------------------------------------------
\* hs_compile on its own: one call on a list of patterns
\* ------------------------------------------------------------------------

MaxPatterns == 3

\* The type label of the k-th pattern of a list.
TypeLabel(k) == <<"t1", "t2", "t3", "t4", "t5">>[k]

\* Lists of up to MaxPatterns patterns, each with a body the compiler takes
\* or rejects, the k-th with the type TypeLabel(k).
CompileLists ==
    UNION {{[k \in 1..n |-> Pattern("n1", TypeLabel(k), c[k][1], c[k][2], NoFragment,
                                    <<>>, <<>>, <<>>)] :
               c \in [1..n -> {NoFragment, StartU} \X {BodyA, BodyW, BodyBad}]} :
           n \in 0..MaxPatterns}

\* A fresh database and a list of patterns about to be compiled.
InitCompile ==
    /\ patterns \in CompileLists
    /\ args = DefaultArgs
    /\ tree = <<>>
    /\ pc = "hc_call"
    /\ exitCode = -1
    /\ RESULTS = <<>>
    /\ origin = <<>>
    /\ stdout = <<>>
    /\ found_patterns = FALSE
    /\ ret = TRUE
    /\ dirIdx = 1
    /\ db = <<>>
    /\ fileIdx = 1
    /\ cur = [path |-> NoPath, content |-> <<>>, flags |-> FixtureFlags]
    /\ pending = {}
    /\ patIdx = 1
    /\ verdicts = <<>>
    /\ dr = [files |-> <<>>, idx |-> 1, quiet |-> FALSE, clear_results |-> TRUE,
             size_read |-> 0, files_read |-> 0, caller |-> "main"]
    /\ rnd = [size_read |-> 0, fed |-> <<>>]
    /\ rp = [idx |-> 1, size_read |-> 0, files_read |-> 0]
    /\ log = <<>>
    /\ LOCK = 0
    /\ threads = <<>>

\* hs_compile(db, [pattern.regex_string() ...], labels=[pattern.type ...]);
\* ret holds the value returned.
HsCompileCall ==
    /\ pc = "hc_call"
    /\ LET comp == hs_compile(db, RegexStrings(patterns), Labels(patterns))
       IN  /\ db' = comp.db
           /\ ret' = comp.ok
           /\ log' = log \o CompileErrors(comp.reported)
    /\ pc' = "hc_done"
    /\ UNCHANGED <<args, tree, exitCode, RESULTS, origin, stdout, found_patterns, dirIdx,
                   patterns, fileIdx, cur, pending, patIdx, verdicts, dr, rnd, rp,
                   lockVars>>

NextCompile == HsCompileCall

SpecCompile == InitCompile /\ [][NextCompile]_vars

\* ------------------------------------------------------------------------
\* The include / exclude filters of the test engine and of the combine tool,
\* pattern names and types spelled out character by character
\* ------------------------------------------------------------------------

MaxGlob == 2

\* The tokens of a glob: a literal character, *, ? and the class [gk].
GlobTokens == {"g", "*", "?", "[gk]"}

Globs == SeqsUpTo(GlobTokens, MaxGlob) \ {<<>>}

\* One token of a glob against one character.
TokenMatches(tok, ch) ==
    \/ tok = "?"
    \/ tok = "[gk]" /\ ch \in {"g", "k"}
    \/ tok \notin {"?", "*", "[gk]"} /\ tok = ch

\* fnmatch.fnmatch(field, pattern): * matches any run of characters, ? one
\* character, [..] one character of the class, anything else itself.
RECURSIVE fnmatch(_, _)
fnmatch(field, pattern) ==
    IF pattern = <<>> THEN field = <<>>
    ELSE IF Head(pattern) = "*"
    THEN \/ fnmatch(field, Tail(pattern))
         \/ field # <<>> /\ fnmatch(Tail(field), pattern)
    ELSE /\ field # <<>>
         /\ TokenMatches(Head(pattern), Head(field))
         /\ fnmatch(Tail(field), Tail(pattern))

\* Mutant of glob_match: the field has to equal one of the list's entries.
glob_match_exact(field, exclude) ==
    \E k \in 1..Len(exclude) : exclude[k] = field

\* combine.glob_match(field, exclude); None and the empty list give False.
glob_match(field, exclude) ==
    \E k \in 1..Len(exclude) : fnmatch(field, exclude[k])

\* The value of `include` at the end of the loop body of combine.main for
\* one pattern; a list that is not given is <<>>.
CombineIncludes(pattern, a) ==
    LET byInclude ==
            IF a.include_name # <<>> \/ a.include_type # <<>>
            THEN \/ a.include_name # <<>> /\ glob_match(pattern.name, a.include_name)
                 \/ a.include_type # <<>> /\ glob_match(pattern.type, a.include_type)
            ELSE TRUE
        afterType ==
            IF a.exclude_type # <<>> /\ glob_match(pattern.type, a.exclude_type)
            THEN FALSE ELSE byInclude
    IN  IF a.exclude_name # <<>> /\ glob_match(pattern.name, a.exclude_name)
        THEN FALSE ELSE afterType

\* The document combine.main prints.
CombineDocument(dirs, a) ==
    [name |-> "Collection of custom patterns",
     patterns |-> SelectSeq(AllPatterns(dirs, <<>>, <<>>),
                            LAMBDA q : CombineIncludes(q, a))]

\* A pattern of the filter inputs: only the name and the type matter.
FilterPattern(name, type) ==
    Pattern(name, type, NoFragment, BodyA, NoFragment, <<>>, <<>>, <<>>)

\* A list that is not given, or a list of one glob.
GlobLists == {<<>>} \cup {<<g>> : g \in Globs}

\* Two directories, the first with a pattern of any of four name and type
\* combinations and a second pattern, the other with a third pattern.
FilterTrees ==
    {<<Dir("d1", <<FilterPattern(n, t), FilterPattern(<<"k">>, <<"g", "g">>)>>, <<>>),
       Dir("d2", <<FilterPattern(<<"g", "k">>, <<"g">>)>>, <<>>)>> :
        n \in {<<"g">>, <<"k">>}, t \in {<<"g", "k">>, <<"_">>}}

\* The command lines of the test engine, --include and --exclude over the
\* type, and those of the combine tool.
FilterArgs ==
    {[tool |-> "test", include |-> i, exclude |-> x, include_name |-> <<>>,
      include_type |-> <<>>, exclude_type |-> <<>>, exclude_name |-> <<>>] :
        i \in GlobLists, x \in GlobLists}
    \cup
    {[tool |-> "combine", include |-> <<>>, exclude |-> <<>>, include_name |-> iname,
      include_type |-> it, exclude_type |-> xt, exclude_name |-> xn] :
        iname \in {<<>>, <<<<"g">>>>}, it \in GlobLists, xt \in GlobLists,
        xn \in {<<>>, <<<<"g">>>>}}

InitFilter ==
    /\ args \in FilterArgs
    /\ tree \in FilterTrees
    /\ pc = "f_call"
    /\ exitCode = -1
    /\ RESULTS = <<>>
    /\ origin = <<>>
    /\ stdout = <<>>
    /\ found_patterns = FALSE
    /\ ret = TRUE
    /\ dirIdx = 1
    /\ patterns = <<>>
    /\ db = <<>>
    /\ fileIdx = 1
    /\ cur = [path |-> NoPath, content |-> <<>>,
              flags |-> [verbose |-> FALSE, quiet |-> FALSE, write_to_results |-> TRUE,
                         dry_run |-> FALSE, only_match |-> FALSE,
                         no_additional_matches |-> FALSE]]
    /\ pending = {}
    /\ patIdx = 1
    /\ verdicts = <<>>
    /\ dr = [files |-> <<>>, idx |-> 1, quiet |-> FALSE, clear_results |-> TRUE,
             size_read |-> 0, files_read |-> 0, caller |-> "main"]
    /\ rnd = [size_read |-> 0, fed |-> <<>>]
    /\ rp = [idx |-> 1, size_read |-> 0, files_read |-> 0]
    /\ log = <<>>
    /\ LOCK = 0
    /\ threads = <<>>

filterFrame == <<args, tree, exitCode, RESULTS, origin, found_patterns, ret, dirIdx, db,
                 fileIdx, cur, pending, patIdx, verdicts, dr, rnd, rp, log, lockVars>>

\* The test engine parses the patterns of all directories with its
\* --include and --exclude lists.
ParseCall ==
    /\ pc = "f_call"
    /\ args.tool = "test"
    /\ patterns' = AllPatterns(tree, args.include, args.exclude)
    /\ pc' = "f_parsed"
    /\ UNCHANGED <<filterFrame, stdout>>

\* The combine tool walks the directories and prints the document.
CombineCall ==
    /\ pc = "f_call"
    /\ args.tool = "combine"
    /\ stdout' = Append(stdout, CombineDocument(tree, args))
    /\ pc' = "f_combined"
    /\ UNCHANGED <<filterFrame, patterns>>

NextFilter ==
    \/ ParseCall
    \/ CombineCall

SpecFilter == InitFilter /\ [][NextFilter]_vars

\* ------------------------------------------------------------------------
\* Loading a pattern-config document: PatternsConfig of patterns.py, and the
\* Pattern constructor of the test engine
\* ------------------------------------------------------------------------

MaxEntries == 2

\* str.strip() on a string spelled out character by character.
RECURSIVE StripLeft(_)
StripLeft(str) == IF str # <<>> /\ Head(str) = " " THEN StripLeft(Tail(str)) ELSE str

RECURSIVE StripRight(_)
StripRight(str) ==
    IF str # <<>> /\ str[Len(str)] = " " THEN StripRight(SubSeq(str, 1, Len(str) - 1))
    ELSE str

Strip(str) == StripLeft(StripRight(str))

\* Regex.__post_init__: a pattern that is not empty is stripped.
RegexPostInit(regex) ==
    [pattern |-> IF regex.pattern # <<>> THEN Strip(regex.pattern) ELSE regex.pattern]

\* Mutant of OffsetsRaise: no offset is ever refused.
OffsetsRaiseNever(e) == FALSE

\* Test.__post_init__ and Expected.__post_init__: the ValueError raised for
\* a start_offset below -1 and for an end_offset that is 0 or below -1.
OffsetsRaise(e) ==
    \/ e.start_offset < -1
    \/ e.end_offset = 0
    \/ e.end_offset < -1

\* The keys of a well-formed entry that the loaders read without a default:
\* the regex mapping and, in it, the pattern string.
RequiredKeys == {"regex", "pattern"}

\* Pattern(**pattern) of patterns.py: the exception of a Regex without its
\* pattern argument or of a refused offset, or the pattern with its regex
\* stripped.
PatternPostInit(entry) ==
    IF \/ ~(RequiredKeys \subseteq entry.keys)
       \/ OffsetsRaise(entry.test)
       \/ \E k \in 1..Len(entry.expected) : OffsetsRaise(entry.expected[k])
    THEN [raised |-> TRUE, pattern |-> entry]
    ELSE [raised |-> FALSE,
          pattern |-> [entry EXCEPT !.regex = RegexPostInit(entry.regex)]]

\* parse_patterns of the test engine on one entry: pattern["regex"] raises
\* KeyError without the mapping, and Pattern.__init__ raises AttributeError
\* on pattern.strip() without the pattern string. Neither is caught.
TestPatternRaises(entry) == ~(RequiredKeys \subseteq entry.keys)

\* Pattern.__init__ of the test engine: the fields stripped, nothing
\* refused.
TestPatternInit(entry) ==
    [name |-> entry.name, pattern |-> Strip(entry.regex.pattern),
     expected |-> entry.expected]

\* The name of the k-th entry of a document.
EntryName(k) == <<"p1", "p2", "p3", "p4", "p5">>[k]

\* The entries of a document but for their names: a regex pattern that is
\* blank, plain or padded, no expectation or one with offsets that are
\* accepted or refused, a test with offsets that are accepted or refused,
\* an entry without the regex mapping and one without the pattern string.
EntryKinds ==
    {[regex |-> [pattern |-> b], expected |-> ex, keys |-> RequiredKeys,
      test |-> [start_offset |-> 0, end_offset |-> 1]] :
        b \in {<<" ">>, <<"a">>, <<" ", "a">>},
        ex \in {<<>>} \cup {<<Expectation("f1", o[1], o[2])>> :
                               o \in {<<0, 1>>, <<-1, -1>>, <<-2, 1>>, <<0, 0>>, <<0, -2>>}}}
    \cup
    {[regex |-> [pattern |-> <<"a">>], expected |-> <<>>, keys |-> RequiredKeys, test |-> t] :
        t \in {[start_offset |-> -2, end_offset |-> 1], [start_offset |-> 0, end_offset |-> 0]}}
    \cup
    {[regex |-> [pattern |-> <<>>], expected |-> <<>>, keys |-> ks,
      test |-> [start_offset |-> 0, end_offset |-> 1]] :
        ks \in {RequiredKeys, {"regex"}, {}}}

\* Documents of up to MaxEntries entries.
Documents ==
    UNION {{[k \in 1..n |-> [name |-> EntryName(k), regex |-> c[k].regex,
                             expected |-> c[k].expected, test |-> c[k].test,
                             keys |-> c[k].keys]] :
               c \in [1..n -> EntryKinds]} : n \in 0..MaxEntries}

\* A document read by yaml.safe_load, nothing loaded yet.
InitLoad ==
    /\ \E d \in Documents : tree = <<Dir("d1", d, <<>>)>>
    /\ args = DefaultArgs
    /\ pc = "ld_loop"
    /\ exitCode = -1
    /\ RESULTS = <<>>
    /\ origin = <<>>
    /\ stdout = <<>>
    /\ found_patterns = FALSE
    /\ ret = TRUE
    /\ dirIdx = 1
    /\ patterns = <<>>
    /\ db = <<>>
    /\ fileIdx = 1
    /\ cur = [path |-> NoPath, content |-> <<>>, flags |-> FixtureFlags]
    /\ pending = {}
    /\ patIdx = 1
    /\ verdicts = <<>>
    /\ dr = [files |-> <<>>, idx |-> 1, quiet |-> FALSE, clear_results |-> TRUE,
             size_read |-> 0, files_read |-> 0, caller |-> "main"]
    /\ rnd = [size_read |-> 0, fed |-> <<>>]
    /\ rp = [idx |-> 1, size_read |-> 0, files_read |-> 0]
    /\ log = <<>>
    /\ LOCK = 0
    /\ threads = <<>>

loadFrame == <<args, tree, exitCode, RESULTS, origin, stdout, found_patterns, ret, dirIdx,
               db, fileIdx, cur, pending, verdicts, dr, rnd, rp, lockVars>>

\* One turn of the loop of PatternsConfig.__post_init__: the pattern is
\* appended, or the exception is caught and logged.
LoadEntry ==
    /\ pc = "ld_loop"
    /\ patIdx <= Len(tree[1].patterns)
    /\ LET made == PatternPostInit(tree[1].patterns[patIdx])
       IN  IF made.raised
           THEN /\ log' = Append(log, [what |-> "Failed to validate pattern",
                                       name |-> tree[1].patterns[patIdx].name])
                /\ UNCHANGED patterns
           ELSE /\ patterns' = Append(patterns, made.pattern)
                /\ UNCHANGED log
    /\ patIdx' = patIdx + 1
    /\ UNCHANGED <<loadFrame, pc>>

\* End of the loop: the configuration is loaded.
LoadDone ==
    /\ pc = "ld_loop"
    /\ patIdx > Len(tree[1].patterns)
    /\ pc' = "ld_done"
    /\ UNCHANGED <<loadFrame, patterns, patIdx, log>>

\* The test engine builds its patterns from the same document; an entry
\* that raises ends the process with the traceback.
TestLoad ==
    /\ pc = "ld_loop"
    /\ patIdx = 1
    /\ IF \E k \in 1..Len(tree[1].patterns) : TestPatternRaises(tree[1].patterns[k])
       THEN /\ pc' = "exit"
            /\ exitCode' = 1
            /\ UNCHANGED patterns
       ELSE /\ patterns' = [k \in 1..Len(tree[1].patterns) |->
                                TestPatternInit(tree[1].patterns[k])]
            /\ pc' = "ld_test_done"
            /\ UNCHANGED exitCode
    /\ UNCHANGED <<args, tree, RESULTS, origin, stdout, found_patterns, ret, dirIdx, db,
                   fileIdx, cur, pending, verdicts, dr, rnd, rp, lockVars, patIdx, log>>

NextLoad ==
    \/ LoadEntry
    \/ LoadDone
    \/ TestLoad

SpecLoad == InitLoad /\ [][NextLoad]_vars

\* ------------------------------------------------------------------------
\* random_test_patterns on its own: main has built the union database and
\* reaches the test of args.random; the main thread keeps running and every
\* callback returns
\* ------------------------------------------------------------------------

\* The pattern lists of the random runs: a+ alone, a+ with a pattern that
\* has no hit in any chunk, and a+ with a filter entry that cannot be
\* compiled.
RandomPatterns ==
    {<<Pattern("n1", "t1", NoFragment, BodyA, NoFragment, <<>>, <<>>, <<>>)>>,
     <<Pattern("n1", "t1", NoFragment, BodyA, NoFragment, <<>>, <<>>, <<>>),
       Pattern("n7", "t7", StartU, BodyA, NoFragment, <<>>, <<>>, <<>>)>>,
     <<Pattern("n1", "t1", NoFragment, BodyA, NoFragment, <<BADREGEX>>, <<>>, <<>>)>>}

\* main after build_hyperscan_patterns and the dry-run mode, --random given.
InitRandom ==
    /\ \E q \in BOOLEAN, om \in BOOLEAN :
           args = [DefaultArgs EXCEPT !.quiet = q, !.only_match = om, !.random = TRUE,
                                      !.continue_on_fail = TRUE]
    /\ \E pats \in RandomPatterns :
           /\ tree = <<Dir("d1", pats, <<>>)>>
           /\ patterns = pats
           /\ db = RegexStrings(pats)
    /\ pc = "main_random"
    /\ exitCode = -1
    /\ RESULTS = <<>>
    /\ origin = <<>>
    /\ stdout = <<>>
    /\ found_patterns = TRUE
    /\ ret = TRUE
    /\ dirIdx = 2
    /\ fileIdx = 1
    /\ cur = [path |-> NoPath, content |-> <<>>, flags |-> FixtureFlags]
    /\ pending = {}
    /\ patIdx = 1
    /\ verdicts = <<>>
    /\ dr = [files |-> <<>>, idx |-> 1, quiet |-> FALSE, clear_results |-> TRUE,
             size_read |-> 0, files_read |-> 0, caller |-> "main"]
    /\ rnd = [size_read |-> 0, fed |-> <<>>]
    /\ rp = [idx |-> 1, size_read |-> 0, files_read |-> 0]
    /\ log = <<>>
    /\ LOCK = 0
    /\ threads = <<>>

NextRandom ==
    \/ MainRandom
    \/ RandomBinary
    \/ RandomBinaryDone
    \/ RandomAscii
    \/ RandomReturn
    \/ Callback
    \/ MainRepos

\* The steps of the main thread.
RandomMainSteps ==
    \/ MainRandom
    \/ RandomBinary
    \/ RandomBinaryDone
    \/ RandomAscii
    \/ RandomReturn
    \/ MainRepos

\* A step in which a callback of the running scan ends.
CallbackReturns ==
    /\ pc \in {"tp_files", "dr_files", "rnd_binary", "rnd_ascii"}
    /\ pending # {}
    /\ pending' \in SUBSET pending
    /\ pending' # pending

\* The main thread is never suspended for ever, and db.scan() runs the
\* callback of every hit to its end before it returns.
SpecRandom ==
    /\ InitRandom
    /\ [][NextRandom]_vars
    /\ WF_vars(RandomMainSteps)
    /\ WF_pending(CallbackReturns)

\* ------------------------------------------------------------------------
\* The fixture test with the reconcile loop of a directory run a second
\* time over the same store
\* ------------------------------------------------------------------------

\* One directory with any expectations and content, and the trees of small
\* directories.
ReconcileTwiceInputs ==
    ReconcileInputs
    \cup {[args |-> DefaultArgs, tree |-> t] :
              t \in UNION {[1..n -> SmallDirs] : n \in 1..MaxDirs}}

InitReconcile ==
    /\ \E i \in ReconcileTwiceInputs : args = i.args /\ tree = i.tree
    /\ pc = "main"
    /\ exitCode = -1
    /\ RESULTS = <<>>
    /\ origin = <<>>
    /\ stdout = <<>>
    /\ found_patterns = FALSE
    /\ ret = TRUE
    /\ dirIdx = 1
    /\ patterns = <<>>
    /\ db = <<>>
    /\ fileIdx = 1
    /\ cur = [path |-> NoPath, content |-> <<>>, flags |-> FixtureFlags]
    /\ pending = {}
    /\ patIdx = 1
    /\ verdicts = <<>>
    /\ dr = [files |-> <<>>, idx |-> 1, quiet |-> FALSE, clear_results |-> TRUE,
             size_read |-> 0, files_read |-> 0, caller |-> "main"]
    /\ rnd = [size_read |-> 0, fed |-> <<>>]
    /\ rp = [idx |-> 1, size_read |-> 0, files_read |-> 0]
    /\ log = <<>>
    /\ LOCK = 0
    /\ threads = <<>>

\* The verdicts given so far for the patterns of the current directory.
PassVerdicts == SelectSeq(verdicts, LAMBDA v : v.dir = dirIdx)

\* The reconcile loop of the directory has run once and is started again.
ReconcileAgain ==
    /\ pc = "tp_reconcile"
    /\ UNCHANGED lockVars
    /\ patIdx > Len(patterns)
    /\ Len(PassVerdicts) = Len(patterns)
    /\ patIdx' = 1
    /\ UNCHANGED <<args, tree, pc, exitCode, RESULTS, origin, stdout, found_patterns, ret,
                   dirIdx, patterns, db, fileIdx, cur, pending, verdicts, modeVars>>

NextReconcile ==
    \/ TestPatternsStart
    \/ TestPatternsDir
    \/ TestPatternsScan
    \/ Callback
    \/ TestPatternsScanned
    \/ TestPatternsReconcile
    \/ ReconcileAgain
    \/ TestPatternsNextDir
    \/ TestPatternsReturn

SpecReconcile == InitReconcile /\ [][NextReconcile]_vars

\* ------------------------------------------------------------------------
\* Every request of LOCK: the callbacks of a scan of test_patterns and of a
\* scan of dry_run_patterns, each `with LOCK` a step of its own, and the
\* summary the main thread prints after the second scan
\* ------------------------------------------------------------------------

\* The identity under which the main thread holds LOCK.
MainThread == MaxThreads + 1

\* LOCKED_LOG: with LOCK: logging.log(...).
LockedLog == <<"acquire", "log", "release">>

\* report_scan_results: the two `with LOCK: LOG.debug(...)` blocks, entered
\* when the level is DEBUG.
DebugBlocks(debug) ==
    IF debug THEN <<"acquire", "log", "release", "acquire", "log", "release">>
    ELSE <<>>

\* The verdict of a fixture hit: LOCKED_LOG unless quiet; an expected hit is
\* logged under quiet too when the level is DEBUG.
VerdictLog(pattern, file_details, f, debug) ==
    LET isExpected == \E k \in 1..Len(pattern.expected) :
                          path_offsets_match(file_details, pattern.expected[k])
    IN  IF ~f.dry_run /\ (~f.quiet \/ (isExpected /\ debug)) THEN LockedLog ELSE <<>>

\* Mutant of StoreMatch: the record of the stored match is logged inside
\* the `with LOCK` block of the append.
StoreMatchNested(write_to_results) ==
    IF write_to_results THEN <<"acquire", "append">> \o LockedLog \o <<"release">>
    ELSE <<>>

\* if write_to_results: with LOCK: (create and append); then, outside the
\* block, LOCKED_LOG of the stored match.
StoreMatch(write_to_results) ==
    IF write_to_results THEN <<"acquire", "append", "release">> \o LockedLog
    ELSE <<>>

\* if dry_run: with LOCK: print(output).
PrintMatch(dry_run) ==
    IF dry_run THEN <<"acquire", "print", "release">> ELSE <<>>

\* The steps of report_scan_results and pcre_result_match for one hit, in
\* program order: the acquisitions and releases of LOCK and what is done
\* under it. A hit whose refinement fails returns after the first
\* LOCKED_LOG, a filtered hit after the LOCKED_LOG of the filter; a filter
\* that cannot be compiled ends the callback with no further request.
CallbackProgram(hit, path, c, f) ==
    LET pattern == patterns[hit.rule_id + 1]
        content == Slice(c, hit.start_offset, hit.end_offset)
        m       == PcreMatch(pcre_regex(pattern), content)
    IN  DebugBlocks(args.debug) \o LockedLog \o
        IF m = NoMatch THEN <<>>
        ELSE
        LET gs   == Slice(content, 0, m.start)
            gp   == Slice(content, m.start, m.start + m.pattern)
            ge   == Slice(content, m.start + m.pattern, m.start + m.pattern + m.end)
            keep == AdditionalFilter(pattern, gp, f.no_additional_matches)
            file_details == FileDetails(path, hit.start_offset, hit.end_offset,
                                        gs, ge, f.dry_run)
        IN  IF keep = "drop" THEN LockedLog
            ELSE IF keep = "exit" THEN <<>>
            ELSE VerdictLog(pattern, file_details, f, args.debug)
                     \o StoreMatch(f.write_to_results)
                     \o PrintMatch(f.dry_run)

\* The next step of thread t, "return" at the end of the callback.
NextOp(t) ==
    IF threads[t].at # "run" THEN "none"
    ELSE IF threads[t].ops = <<>> THEN "return"
    ELSE Head(threads[t].ops)

\* The frame of a thread that runs the callback of one hit: the steps it
\* has still to take.
LockFrame(hit, path, c, f) ==
    [hit |-> hit, at |-> "run", ops |-> CallbackProgram(hit, path, c, f),
     missing |-> FALSE, appended |-> FALSE]

\* scan(): the matcher hands every hit of the buffer to a worker thread,
\* which calls report_scan_results with the arguments bound by scan().
LockScan ==
    /\ pc \in {"c_test_scan", "c_dry_scan"}
    /\ LET file == IF pc = "c_test_scan" THEN tree[1].files[1] ELSE args.extra.files[1]
           hits == SetToSeq(HsScan(db, file.content))
           path == IF pc = "c_test_scan"
                   THEN [dir |-> tree[1].name, name |-> file.name]
                   ELSE [dir |-> file.dirpath, name |-> file.name]
           f    == IF pc = "c_test_scan" THEN FixtureFlags ELSE DryRunFlags
       IN  /\ cur' = [path |-> path, content |-> file.content, flags |-> f]
           /\ threads' = [k \in 1..Len(hits) |->
                              LockFrame(hits[k], path, file.content, f)]
    /\ pc' = IF pc = "c_test_scan" THEN "c_test_wait" ELSE "c_dry_wait"
    /\ UNCHANGED <<args, tree, exitCode, RESULTS, origin, stdout, patterns, db, pending,
                   tpVars, modeVars, LOCK>>

\* `with LOCK` (Lock.acquire): blocks while the lock is held, by whichever
\* thread, the caller included.
LockAcquire(t) ==
    /\ NextOp(t) = "acquire"
    /\ CanAcquire(t)
    /\ LOCK' = t
    /\ threads' = [threads EXCEPT ![t].ops = Tail(@), ![t].appended = @]
    /\ UNCHANGED <<concFrame, RESULTS, stdout>>

\* What a thread does inside a `with LOCK` block: the append to RESULTS,
\* the print of the output line, or a logging call.
LockWork(t) ==
    /\ NextOp(t) \in {"log", "append", "print"}
    /\ RESULTS' = IF NextOp(t) = "append"
                  THEN StoreAppend(RESULTS, ThreadName(t), ThreadEntry(t))
                  ELSE RESULTS
    /\ stdout' = IF NextOp(t) = "print"
                 THEN Append(stdout, ThreadEffect(t).stdout[1])
                 ELSE stdout
    /\ threads' = [threads EXCEPT ![t].ops = Tail(@),
                                  ![t].appended = @ \/ NextOp(t) = "append"]
    /\ UNCHANGED <<concFrame, LOCK>>

\* End of a `with LOCK` block (Lock.release).
LockRelease(t) ==
    /\ NextOp(t) = "release"
    /\ LOCK' = 0
    /\ threads' = [threads EXCEPT ![t].ops = Tail(@), ![t].appended = @]
    /\ UNCHANGED <<concFrame, RESULTS, stdout>>

\* The callback returns.
LockReturn(t) ==
    /\ NextOp(t) = "return"
    /\ threads' = [threads EXCEPT ![t].at = "done"]
    /\ UNCHANGED <<concFrame, RESULTS, stdout, LOCK>>

\* dry_run_patterns after its walk: if not quiet, print_summary, which
\* takes LOCK.
SummaryAcquire ==
    /\ pc = "c_done"
    /\ IF dr.quiet
       THEN pc' = "l_done" /\ UNCHANGED LOCK
       ELSE LOCK = 0 /\ LOCK' = MainThread /\ pc' = "l_summary"
    /\ UNCHANGED <<args, tree, exitCode, RESULTS, origin, stdout, patterns, db, cur,
                   pending, tpVars, modeVars, threads>>

\* print_summary under LOCK: LOG.info called directly, not LOCKED_LOG.
SummaryLog ==
    /\ pc = "l_summary"
    /\ log' = Append(log, SummaryRecord(Len(cur.content), 1, RESULTS))
    /\ pc' = "l_summary_release"
    /\ UNCHANGED <<args, tree, exitCode, RESULTS, origin, stdout, patterns, db, cur,
                   pending, tpVars, dr, rnd, rp, lockVars>>

SummaryRelease ==
    /\ pc = "l_summary_release"
    /\ LOCK' = 0
    /\ pc' = "l_done"
    /\ UNCHANGED <<args, tree, exitCode, RESULTS, origin, stdout, patterns, db, cur,
                   pending, tpVars, modeVars, threads>>

\* The patterns of the scans whose requests of LOCK are followed: those of
\* the concurrent scans, the second with or without an expected location.
LockPatterns ==
    {[ConcPatterns("n2") EXCEPT ![2].expected = e] :
        e \in {<<>>, <<[name |-> "f1", start_offset |-> 0, end_offset |-> 1]>>}}

\* One buffer of at most two bytes for both scans, under each setting of
\* quiet and of the DEBUG level.
LockInputs ==
    {[args |-> [debug |-> d] @@
                   [DefaultArgs EXCEPT
                        !.quiet = q,
                        !.extra = [given |-> TRUE,
                                   files |-> <<WalkFile(<<"x">>, "e1", c, TRUE)>>]],
      tree |-> <<Dir("d1", ps, <<File("f1", c)>>)>>] :
         c \in {x \in ConcContents : Len(x) <= 2}, ps \in LockPatterns,
         q \in BOOLEAN, d \in BOOLEAN}

InitLock ==
    /\ \E i \in LockInputs :
           /\ args = i.args
           /\ tree = i.tree
           /\ patterns = i.tree[1].patterns
           /\ db = RegexStrings(i.tree[1].patterns)
    /\ pc = "c_test"
    /\ exitCode = -1
    /\ RESULTS = <<>>
    /\ origin = <<>>
    /\ stdout = <<>>
    /\ found_patterns = TRUE
    /\ ret = TRUE
    /\ dirIdx = 1
    /\ fileIdx = 1
    /\ cur = [path |-> NoPath, content |-> <<>>, flags |-> FixtureFlags]
    /\ pending = {}
    /\ patIdx = 1
    /\ verdicts = <<>>
    /\ dr = [files |-> <<>>, idx |-> 1, quiet |-> FALSE, clear_results |-> TRUE,
             size_read |-> 0, files_read |-> 0, caller |-> "main"]
    /\ rnd = [size_read |-> 0, fed |-> <<>>]
    /\ rp = [idx |-> 1, size_read |-> 0, files_read |-> 0]
    /\ log = <<>>
    /\ LOCK = 0
    /\ threads = <<>>

\* A step of the main thread, by what it does to its position: the main
\* thread can step unless it waits in db.scan() for a callback or in
\* print_summary for LOCK.
LockMainSteps ==
    /\ \/ pc \in {"c_test", "c_dry", "c_test_scan", "c_dry_scan", "l_summary",
                   "l_summary_release"}
       \/ pc \in {"c_test_wait", "c_dry_wait"}
              /\ \A t \in DOMAIN threads : threads[t].at = "done"
       \/ pc = "c_done" /\ (dr.quiet \/ LOCK = 0)
    /\ pc' \in {"c_test_scan", "c_test_wait", "c_dry", "c_dry_scan", "c_dry_wait",
                "c_done", "l_summary", "l_summary_release", "l_done"}
    /\ pc' # pc

\* A step of the callback thread t, by what it does to its frame: the
\* thread can step unless it has returned or waits for LOCK.
LockThreadSteps(t) ==
    /\ t \in DOMAIN threads
    /\ threads[t].at = "run"
    /\ NextOp(t) = "acquire" => CanAcquire(t)
    /\ threads' = IF threads[t].ops = <<>>
                  THEN [threads EXCEPT ![t].at = "done"]
                  ELSE [threads EXCEPT ![t].ops = Tail(@),
                                       ![t].appended = @ \/ NextOp(t) = "append"]

NextLock ==
    \/ ConcReset
    \/ LockScan
    \/ ConcScanned
    \/ SummaryAcquire
    \/ SummaryLog
    \/ SummaryRelease
    \/ \E t \in DOMAIN threads : LockAcquire(t)
    \/ \E t \in DOMAIN threads : LockWork(t)
    \/ \E t \in DOMAIN threads : LockRelease(t)
    \/ \E t \in DOMAIN threads : LockReturn(t)

\* The main thread and every thread of the matcher's pool keep running:
\* a thread that can take a step is scheduled.
SpecLock ==
    /\ InitLock
    /\ [][NextLock]_vars
    /\ WF_pc(LockMainSteps)
    /\ \A t \in 1..MaxThreads : WF_threads(LockThreadSteps(t))

\* ------------------------------------------------------------------------
\* Properties
\* ------------------------------------------------------------------------

\* The (name, start_offset, end_offset) triples of a list of expectations and
\* of a list of stored matches.
ExpectedTriples(expected) ==
    {<<expected[k].name, expected[k].start_offset, expected[k].end_offset>> :
        k \in 1..Len(expected)}

ResultTriples(results) ==
    {<<results[k].file.name, results[k].file.start_offset, results[k].file.end_offset>> :
        k \in 1..Len(results)}

\* The verdicts of the directory being reconciled. RESULTS does not change
\* while pc = "tp_reconcile".
CurrentVerdicts == {k \in 1..Len(verdicts) : verdicts[k].dir = dirIdx}

\* C1: in fixture mode a pattern with expectations is reported as passing if
\* and only if every expectation equals, on (name, start_offset, end_offset),
\* a match stored for the pattern, and every match stored for the pattern
\* equals one of its expectations on the same triple.
C1_PassIffTriplesAgree ==
    pc = "tp_reconcile" =>
        \A k \in CurrentVerdicts :
            LET pattern == patterns[verdicts[k].pattern]
                stored  == ResultTriples(ResultsGet(RESULTS, pattern.name))
            IN  pattern.expected # <<>> =>
                    (verdicts[k].ok <=>
                        /\ ExpectedTriples(pattern.expected) \subseteq stored
                        /\ stored \subseteq ExpectedTriples(pattern.expected))

\* A pattern with an expectation is reconciled against its stored matches
\* and passes.
C1_Witness ==
    /\ pc = "tp_reconcile"
    /\ \E k \in CurrentVerdicts :
           LET pattern == patterns[verdicts[k].pattern]
           IN  /\ pattern.expected # <<>>
               /\ verdicts[k].ok
               /\ ResultsGet(RESULTS, pattern.name) # <<>>

\* The directories of the tree that yield at least one pattern.
DirsWithPatterns ==
    {d \in 1..Len(tree) : parse_patterns(tree[d], args.include, args.exclude) # <<>>}

\* The pattern a verdict is about.
VerdictPattern(v) == parse_patterns(tree[v.dir], args.include, args.exclude)[v.pattern]

FailedVerdicts ==
    {k \in 1..Len(verdicts) : /\ ~verdicts[k].ok
                              /\ VerdictPattern(verdicts[k]).expected # <<>>}

\* C2: test_patterns returns False if and only if some pattern with
\* expectations failed reconciliation in some directory, or no pattern was
\* found at all; and once ret is False inside test_patterns it stays False.
C2_ReturnValue ==
    /\ [](pc = "tp_returned" => (~ret <=> (FailedVerdicts # {} \/ DirsWithPatterns = {})))
    /\ [][(pc # "main" /\ ~ret) => ~ret']_vars

\* test_patterns returns False after a failing directory followed by a
\* passing one.
C2_Witness ==
    /\ pc = "tp_returned"
    /\ ~ret
    /\ \E j, k \in 1..Len(verdicts) :
           /\ j < k
           /\ verdicts[j].dir < verdicts[k].dir
           /\ ~verdicts[j].ok
           /\ verdicts[k].ok
           /\ VerdictPattern(verdicts[k]).expected # <<>>

FixtureLen(name) ==
    LET files == FixtureFiles(tree[dirIdx])
        hit   == {k \in 1..Len(files) : files[k].name = name}
    IN  IF hit = {} THEN 0 ELSE Len(files[CHOOSE k \in hit : TRUE].content)

\* An expectation with its -1 offsets resolved to the length of the buffer.
Resolved(e) ==
    [name         |-> e.name,
     start_offset |-> IF e.start_offset = -1 THEN FixtureLen(e.name) ELSE e.start_offset,
     end_offset   |-> IF e.end_offset = -1 THEN FixtureLen(e.name) ELSE e.end_offset]

ResolvedExpected(pattern) ==
    [pattern EXCEPT !.expected = [k \in 1..Len(pattern.expected) |->
                                     Resolved(pattern.expected[k])]]

\* C4: an expectation offset of -1 stands for the end of the data and is
\* resolved to the buffer length before comparison: a pattern whose
\* expectations, so resolved, are exactly its stored matches passes.
C4_MinusOneResolved ==
    pc = "tp_reconcile" =>
        \A k \in CurrentVerdicts :
            LET pattern == patterns[verdicts[k].pattern]
            IN  (/\ pattern.expected # <<>>
                 /\ ReconcileOk(ResolvedExpected(pattern), RESULTS)) => verdicts[k].ok

\* All stored matches, each with its key and the hit it came from.
Stored ==
    UNION {{[name |-> n, match |-> RESULTS[n][k], from |-> origin[n][k]] :
                k \in 1..Len(RESULTS[n])} : n \in DOMAIN RESULTS}

\* C5: the published offsets of every recorded hit are the raw matcher
\* offsets moved inward by the byte lengths of the delimiter captures.
C5_OffsetsMovedInwardByBytes ==
    \A s \in Stored :
        /\ s.match.file.start_offset = s.from.start_offset + Len(s.from.captured.start)
        /\ s.match.file.end_offset = s.from.end_offset - Len(s.from.captured.end)

\* A recorded hit whose start capture is the two-byte character: two bytes,
\* one decoded character.
C5_Witness ==
    \E s \in Stored :
        /\ s.from.captured.start = StartU
        /\ s.match.groups.start = <<"e'">>
        /\ s.match.file.start_offset = s.from.start_offset + 2

CallbackStep(hit) ==
    /\ pc \in {"tp_files", "dr_files", "rnd_binary", "rnd_ascii"}
    /\ pc' = pc
    /\ hit \in pending
    /\ pending' = pending \ {hit}

\* The body capture of the refinement match of a hit, which matched.
Refined(hit) ==
    /\ hit.rule_id + 1 <= Len(patterns)
    /\ PcreMatch(pcre_regex(patterns[hit.rule_id + 1]),
                 Slice(cur.content, hit.start_offset, hit.end_offset)) # NoMatch

BodyCapture(hit) ==
    LET slice == Slice(cur.content, hit.start_offset, hit.end_offset)
        m     == PcreMatch(pcre_regex(patterns[hit.rule_id + 1]), slice)
    IN  Slice(slice, m.start, m.start + m.pattern)

\* Every additional_match literal matches the body and no additional_not_match
\* literal does.
FiltersHold(pattern, body) ==
    /\ \A k \in 1..Len(pattern.additional_matches) :
           IsPrefixAt(pattern.additional_matches[k], body, 0)
    /\ \A k \in 1..Len(pattern.additional_not_matches) :
           ~IsPrefixAt(pattern.additional_not_matches[k], body, 0)

\* The filter entries of a pattern all compile.
FiltersCompile(pattern) ==
    /\ \A k \in 1..Len(pattern.additional_matches) :
           pattern.additional_matches[k] # BADREGEX
    /\ \A k \in 1..Len(pattern.additional_not_matches) :
           pattern.additional_not_matches[k] # BADREGEX

\* The step stores one more match under the pattern's name when
\* write_to_results is set and prints one more line in dry-run.
Emitted(pattern) ==
    /\ IF cur.flags.write_to_results
       THEN /\ pattern.name \in DOMAIN RESULTS'
            /\ Len(RESULTS'[pattern.name]) = Len(ResultsGet(RESULTS, pattern.name)) + 1
            /\ \A n \in DOMAIN RESULTS : n # pattern.name => RESULTS'[n] = RESULTS[n]
       ELSE RESULTS' = RESULTS
    /\ IF cur.flags.dry_run
       THEN Len(stdout') = Len(stdout) + 1
       ELSE stdout' = stdout

\* The step stores nothing and prints nothing.
Suppressed == RESULTS' = RESULTS /\ stdout' = stdout

C8_EveryRawHitRecorded ==
    [][\A hit \in pending :
           (/\ CallbackStep(hit)
            /\ hit.rule_id + 1 <= Len(patterns)
            /\ patterns[hit.rule_id + 1].additional_matches = <<>>
            /\ patterns[hit.rule_id + 1].additional_not_matches = <<>>
            /\ cur.flags.write_to_results)
               => Emitted(patterns[hit.rule_id + 1])]_vars

\* The steps that enter a top-level mode: test_patterns, dry_run_patterns
\* called by main, random_test_patterns, repo_test_patterns.
ModeEntryStep ==
    \/ pc = "main" /\ pc' = "tp_walk"
    \/ pc = "main_extra" /\ pc' = "dr_files"
    \/ pc = "main_random" /\ pc' = "rnd_binary"
    \/ pc = "main_repos" /\ args.repos.given

\* Every list of the old store is a prefix of the list under the same key
\* of the new store.
StoreExtends(old, new) ==
    \A n \in DOMAIN old :
        /\ n \in DOMAIN new
        /\ Len(old[n]) <= Len(new[n])
        /\ \A k \in 1..Len(old[n]) : new[n][k] = old[n][k]

\* The files dry_run_patterns scans in the clone path of a repository.
RepoScannedFiles(repo) ==
    SelectSeq(IF repo.clone_ok THEN repo.files ELSE repo.cached,
              LAMBDA f : f.readable /\ ~DirExcluded(f.dirpath))

\* The hits of the compiled patterns in a file that the refinement keeps.
KeptHits(file) ==
    {h \in HsScan(db, file.content) :
        /\ h.rule_id + 1 <= Len(patterns)
        /\ LET pattern == patterns[h.rule_id + 1]
               slice   == Slice(file.content, h.start_offset, h.end_offset)
               m       == PcreMatch(pcre_regex(pattern), slice)
           IN  /\ m # NoMatch
               /\ (args.no_additional_matches
                   \/ FiltersHold(pattern, Slice(slice, m.start, m.start + m.pattern)))}

\* The kept hits of all files of all repositories of the list, each with
\* the position of its repository and file.
AllRepoHits ==
    UNION {UNION {{<<r, f, h>> : h \in KeptHits(RepoScannedFiles(args.repos.list[r])[f])} :
                      f \in 1..Len(RepoScannedFiles(args.repos.list[r]))} :
               r \in 1..Len(args.repos.list)}

RECURSIVE SumLens(_, _)
SumLens(store, names) ==
    IF names = {} THEN 0
    ELSE LET n == CHOOSE x \in names : TRUE
         IN  Len(store[n]) + SumLens(store, names \ {n})

\* C10: every top-level mode invocation starts from an empty store; a
\* dry-run scan entered with clear_results false keeps every entry, so that
\* at the end of a repo-clone run the store holds the matches of all
\* scanned repositories; during a scan phase entries are only appended.
C10_ClearedPerModeElseAppendOnly ==
    /\ [][ModeEntryStep => RESULTS' = <<>>]_vars
    /\ [][(pc = "rp_loop" /\ pc' = "dr_files")
              => (~dr'.clear_results /\ RESULTS' = RESULTS)]_vars
    /\ [][(pc \in {"tp_files", "tp_reconcile", "dr_files", "rnd_binary", "rnd_ascii"})
              => StoreExtends(RESULTS, RESULTS')]_vars
    /\ []((pc = "rp_loop" /\ rp.idx > Len(args.repos.list)) =>
              /\ SumLens(RESULTS, DOMAIN RESULTS) = Cardinality(AllRepoHits)
              /\ \A x \in AllRepoHits :
                     LET file == RepoScannedFiles(args.repos.list[x[1]])[x[2]]
                     IN  \E s \in Stored :
                             /\ s.name = patterns[x[3].rule_id + 1].name
                             /\ s.match.file.name = <<file.dirpath, file.name>>
                             /\ s.from.start_offset = x[3].start_offset
                             /\ s.from.end_offset = x[3].end_offset)

\* A repo-clone run over two repositories is complete and the store holds a
\* match of the first and a match of the second; it was entered with a
\* store the dry-run scan before it had filled.
C10_Witness ==
    /\ pc = "rp_loop"
    /\ rp.idx > Len(args.repos.list)
    /\ Len(args.repos.list) = 2
    /\ args.extra.given
    /\ \E s, t \in Stored :
           /\ s.match.file.name[1] = args.repos.list[1].files[1].dirpath
           /\ t.match.file.name[1] # s.match.file.name[1]

\* Every entry of the store is the complete dict of a callback of the
\* running scan: the file name, both offsets and the three captures.
FullyFormed ==
    \A n \in DOMAIN RESULTS : \A k \in 1..Len(RESULTS[n]) :
        /\ DOMAIN RESULTS[n][k] = {"file", "groups"}
        /\ DOMAIN RESULTS[n][k].file = {"name", "start_offset", "end_offset"}
        /\ DOMAIN RESULTS[n][k].groups = {"start", "pattern", "end"}
        /\ \E t \in DOMAIN threads :
               /\ threads[t].appended
               /\ ThreadName(t) = n
               /\ ThreadEntry(t) = RESULTS[n][k]

\* The threads whose append under `name` has run.
Appended(name) == {t \in DOMAIN threads : threads[t].appended /\ ThreadName(t) = name}

\* The append of every thread of the running scan is in the store.
NoLostAppend ==
    \A t \in DOMAIN threads :
        threads[t].appended =>
            /\ ThreadName(t) \in DOMAIN RESULTS
            /\ Len(RESULTS[ThreadName(t)]) = Cardinality(Appended(ThreadName(t)))
            /\ \E k \in 1..Len(RESULTS[ThreadName(t)]) :
                   RESULTS[ThreadName(t)][k] = ThreadEntry(t)

\* C9 as stated: the store changes only while LOCK is held, whatever the
\* interleaving of the callbacks; an entry is visible only fully formed; no
\* append of two concurrent callbacks of one pattern name is lost.
C9_StoreMutatedOnlyUnderLock ==
    /\ [][RESULTS' # RESULTS => LOCK # 0]_vars
    /\ []FullyFormed
    /\ []NoLostAppend

\* C9 amended: a callback changes the store only while it holds LOCK, and
\* the one other change is the reset at the start of a mode, which the main
\* thread makes without LOCK when no callback is running; an entry is
\* visible only fully formed; no append of two concurrent callbacks of one
\* pattern name is lost.
C9_CallbacksMutateUnderLock ==
    /\ [][RESULTS' # RESULTS =>
            \/ /\ LOCK \in DOMAIN threads
               /\ LOCK' = LOCK
               /\ threads[LOCK].at \in {"create", "append"}
               /\ threads'[LOCK].at # threads[LOCK].at
               /\ \A t \in DOMAIN threads \ {LOCK} : threads'[t] = threads[t]
            \/ /\ pc \in {"c_test", "c_dry"}
               /\ LOCK = 0
               /\ RESULTS' = <<>>
               /\ \A t \in DOMAIN threads : threads[t].at = "done"]_vars
    /\ []FullyFormed
    /\ []NoLostAppend

\* In the dry-run scan, after the reset of a filled store, two callbacks of
\* one pattern name have both appended, the second still holding LOCK.
C9_Witness ==
    /\ pc = "c_dry_wait"
    /\ \E t, u \in DOMAIN threads :
           /\ t # u
           /\ ThreadName(t) = ThreadName(u)
           /\ threads[t].appended
           /\ threads[u].at = "release"
           /\ LOCK = u
           /\ Len(RESULTS[ThreadName(t)]) = 2

\* The stored matches of the files at the clone path of the r-th repository
\* of the list.
StoredOfRepo(r) ==
    {s \in Stored : \E f \in 1..Len(args.repos.list[r].files \o args.repos.list[r].cached) :
        s.match.file.name[1] = (args.repos.list[r].files \o args.repos.list[r].cached)[f].dirpath}

\* The run of repo_test_patterns goes on to the scan of the next repository
\* and, after each scan, to the repository after it.
RepoRunNotAborted ==
    /\ [][(pc = "rp_loop" /\ rp.idx <= Len(args.repos.list))
              => (pc' = "dr_files" /\ dr'.caller = "repos" /\ exitCode' = -1)]_vars
    /\ [][(pc = "dr_files" /\ dr.caller = "repos" /\ pc' = "rp_loop")
              => rp'.idx = rp.idx + 1]_vars

\* C11 as stated: a repository whose clone fails is skipped, none of its
\* files is scanned and no match is recorded for it, and the remaining
\* repositories are still cloned and scanned.
C11_FailedCloneSkipped ==
    /\ [][(pc = "rp_loop" /\ pc' = "dr_files" /\ ~args.repos.list[rp.idx].clone_ok)
              => dr'.files = <<>>]_vars
    /\ [](pc \in {"rp_loop", "dr_files"} /\ args.repos.given =>
              \A r \in 1..Len(args.repos.list) :
                  ~args.repos.list[r].clone_ok => StoredOfRepo(r) = {})
    /\ RepoRunNotAborted

\* C11 amended: a failed clone does not abort the run and the clone path is
\* walked all the same, so the files an earlier clone left there are
\* scanned and their matches recorded; the remaining repositories are
\* still cloned and scanned.
C11_FailedCloneStillWalked ==
    /\ [][(pc = "rp_loop" /\ pc' = "dr_files") =>
              dr'.files = IF args.repos.list[rp.idx].clone_ok
                          THEN args.repos.list[rp.idx].files
                          ELSE args.repos.list[rp.idx].cached]_vars
    /\ [](pc = "rp_loop" /\ rp.idx > Len(args.repos.list) /\ db # <<>> =>
              \A r \in 1..Len(args.repos.list) :
                  (/\ ~args.repos.list[r].clone_ok
                   /\ \E f \in 1..Len(args.repos.list[r].cached) :
                          KeptHits(args.repos.list[r].cached[f]) # {})
                      => StoredOfRepo(r) # {})
    /\ RepoRunNotAborted

\* The run over a list whose first clone failed is complete: the store
\* holds a match of the earlier clone at the first path and a match of the
\* repository after it.
C11_Witness ==
    /\ pc = "rp_loop"
    /\ Len(args.repos.list) = 2
    /\ rp.idx > 2
    /\ ~args.repos.list[1].clone_ok
    /\ args.repos.list[2].clone_ok
    /\ StoredOfRepo(1) # {}
    /\ StoredOfRepo(2) # {}

\* The type labels reported as compile errors.
ReportedTypes == {log[k].type : k \in {j \in 1..Len(log) : log[j].what = "compile error"}}

\* The types of the patterns in use that do not compile on their own.
InvalidTypes == {patterns[k].type : k \in {j \in 1..Len(patterns) : ~patterns[j].body.hs}}

\* C12: after a call whose bulk compile failed, the types reported are
\* exactly those of the patterns that fail to compile individually, and the
\* call has returned failure.
C12_EachFailureReported ==
    (pc = "hc_done" /\ ~HsCompiles(RegexStrings(patterns)) /\ patterns # <<>>) =>
        /\ ReportedTypes = InvalidTypes
        /\ ~ret

\* The compile of a non-empty list of patterns raises.
CompileFails(pats) == pats # <<>> /\ ~HsCompiles(RegexStrings(pats))

\* C13: a compile error is fatal whatever the quiet flag: in fixture mode
\* the step that fails to compile a directory's patterns exits with 1, so
\* that no file of the directory is scanned, and the step that fails to
\* compile the union of the patterns exits with 1 before any later mode.
C13_CompileErrorFatal ==
    /\ [][(/\ pc = "tp_walk"
           /\ dirIdx <= Len(tree)
           /\ CompileFails(parse_patterns(tree[dirIdx], args.include, args.exclude)))
              => (pc' = "exit" /\ exitCode' = 1)]_vars
    /\ [][(/\ pc = "main_build"
           /\ CompileFails(AllPatterns(tree, args.include, args.exclude)))
              => (pc' = "exit" /\ exitCode' = 1)]_vars

\* The place of a position of main in the order of the modes that follow
\* the build of the union database: 1 dry-run, 2 random, 3 repo-clone.
ModeRank(at, caller) ==
    IF at = "main_extra" \/ (at = "dr_files" /\ caller = "main") THEN 1
    ELSE IF at \in {"main_random", "rnd_binary", "rnd_ascii"} THEN 2
    ELSE IF at \in {"main_repos", "rp_loop"} \/ (at = "dr_files" /\ caller = "repos") THEN 3
    ELSE 0

\* C14: a failed fixture test without --continue-on-fail exits with 1 at
\* once, the union database not built and no mode run; with
\* --continue-on-fail the step after the fixture test never exits, the
\* union database is built next, and the requested modes are entered in
\* the order dry-run, random, repo-clone.
C14_FailFastUnlessContinue ==
    /\ [][(pc = "tp_returned" /\ ~ret /\ ~args.continue_on_fail)
              => (pc' = "exit" /\ exitCode' = 1 /\ db' = db /\ RESULTS' = RESULTS)]_vars
    /\ [][pc # "exit"]_vars
    /\ [][(pc = "tp_returned" /\ (ret \/ args.continue_on_fail))
              => (pc' = "main_build" /\ exitCode' = -1)]_vars
    /\ [][(pc = "main_build" /\ pc' # "exit") => pc' = "main_extra"]_vars
    /\ [][(ModeRank(pc, dr.caller) > 0 /\ pc' # "exit")
              => ModeRank(pc', dr'.caller) >= ModeRank(pc, dr.caller)]_vars
    /\ [][(pc = "main_extra" /\ args.extra.given) => pc' = "dr_files"]_vars
    /\ [][(pc = "main_random" /\ args.random) => pc' = "rnd_binary"]_vars
    /\ [][(pc = "main_repos" /\ args.repos.given /\ args.repos.readable)
              => pc' = "rp_loop"]_vars

\* The fixture test has failed, --continue-on-fail is given, and main has
\* gone through the dry-run scan and has reached the repo-clone mode.
C14_Witness ==
    /\ ~ret
    /\ args.continue_on_fail
    /\ args.extra.given
    /\ pc = "rp_loop"
    /\ exitCode = -1

\* The patterns of the tree in discovery order.
Discovered == AllPatterns(tree, <<>>, <<>>)

\* C15: the test engine keeps a pattern exactly when no include list is
\* given or some include glob matches its type, and no exclude glob
\* matches its type.
C15_IncludeExcludeAreGlobs ==
    pc = "f_parsed" =>
        patterns = SelectSeq(Discovered,
                             LAMBDA q :
                                 /\ (args.include = <<>>
                                     \/ \E k \in 1..Len(args.include) :
                                            fnmatch(q.type, args.include[k]))
                                 /\ ~(\E k \in 1..Len(args.exclude) :
                                          fnmatch(q.type, args.exclude[k])))

\* Some glob of a list matches the field.
SomeGlob(list, field) == \E k \in 1..Len(list) : fnmatch(field, list[k])

LegalEntries ==
    SelectSeq(tree[1].patterns,
              LAMBDA q :
                  /\ {"regex", "pattern"} \subseteq q.keys
                  /\ q.test.start_offset >= -1
                  /\ q.test.end_offset > 0 \/ q.test.end_offset = -1
                  /\ \A k \in 1..Len(q.expected) :
                         /\ q.expected[k].start_offset >= -1
                         /\ q.expected[k].end_offset > 0 \/ q.expected[k].end_offset = -1)

\* C17: loading a document never aborts on an invalid entry: every turn of
\* the loop goes on to the next entry, and the loaded configuration holds
\* the entries with legal offsets, all of them and in their order, each
\* other entry having been logged.
C17_InvalidEntrySkipped ==
    /\ [][(pc = "ld_loop" /\ pc' = "ld_loop")
              => (patIdx' = patIdx + 1 /\ exitCode' = -1)]_vars
    /\ [](pc = "ld_loop" => exitCode = -1)
    /\ [](pc = "ld_done" =>
              /\ Len(patterns) = Len(LegalEntries)
              /\ \A k \in 1..Len(patterns) :
                     /\ patterns[k].name = LegalEntries[k].name
                     /\ patterns[k].expected = LegalEntries[k].expected
                     /\ patterns[k].test = LegalEntries[k].test
              /\ Len(log) = Len(tree[1].patterns) - Len(LegalEntries)
              /\ \A k \in 1..Len(log) :
                     \A j \in 1..Len(patterns) : log[k].name # patterns[j].name)

\* A document is loaded whose first entry has an expectation with an
\* illegal offset and whose second entry is valid: the second is loaded and
\* the first is logged.
C17_Witness ==
    /\ pc = "ld_done"
    /\ Len(tree[1].patterns) = 2
    /\ tree[1].patterns[1].expected # <<>>
    /\ OffsetsRaise(tree[1].patterns[1].expected[1])
    /\ Len(patterns) = 1
    /\ patterns[1].name = EntryName(2)
    /\ Len(log) = 1

\* C18: no loaded pattern of either loader has a body regex that is empty,
\* and every entry whose body is empty once trimmed is left out and logged.
C18_EmptyBodyRejected ==
    pc \in {"ld_done", "ld_test_done"} =>
        /\ \A k \in 1..Len(patterns) :
               IF pc = "ld_done" THEN patterns[k].regex.pattern # <<>>
               ELSE patterns[k].pattern # <<>>
        /\ \A k \in 1..Len(tree[1].patterns) :
               Strip(tree[1].patterns[k].regex.pattern) = <<>>
                   => \A j \in 1..Len(patterns) : patterns[j].name # EntryName(k)

\* The directories of the tree whose pattern set is empty.
EmptySets == {d \in 1..Len(tree) : d \notin DirsWithPatterns}

\* The step of test_patterns at a directory with an empty pattern set goes
\* on to the next directory: nothing is compiled, scanned or judged.
EmptySetSkipped ==
    [][(pc = "tp_walk" /\ dirIdx \in EmptySets)
           => /\ pc' = "tp_walk"
              /\ dirIdx' = dirIdx + 1
              /\ <<RESULTS, db, ret, verdicts, found_patterns, exitCode>>'
                     = <<RESULTS, db, ret, verdicts, found_patterns, exitCode>>]_vars

\* C19 as stated: an empty pattern set is skipped and is never the cause
\* of a failure: it is not scanned, a False verdict of the fixture test
\* always comes from a pattern that failed, and an exit at the compile of
\* the union always comes from a pattern that does not compile.
C19_EmptySetNeverFails ==
    /\ EmptySetSkipped
    /\ [](pc = "tp_returned" /\ EmptySets # {} /\ ~ret => FailedVerdicts # {})
    /\ [][(pc = "main_build" /\ EmptySets # {} /\ pc' = "exit")
              => CompileFails(AllPatterns(tree, args.include, args.exclude))]_vars

\* C19 amended: an empty pattern set is skipped, and as long as some other
\* set of the tree yields a pattern it causes no failure; when no set
\* yields a pattern the fixture test returns False and, unless quiet, the
\* compile of the empty union makes main exit with 1.
C19_EmptySetSkippedUnlessAlone ==
    /\ EmptySetSkipped
    /\ [](pc = "tp_returned" /\ DirsWithPatterns # {} /\ ~ret => FailedVerdicts # {})
    /\ [](pc = "tp_returned" /\ DirsWithPatterns = {} => ~ret)
    /\ [][(pc = "main_build" /\ DirsWithPatterns # {} /\ pc' = "exit")
              => CompileFails(AllPatterns(tree, args.include, args.exclude))]_vars
    /\ [][(pc = "main_build" /\ DirsWithPatterns = {} /\ ~args.quiet)
              => (pc' = "exit" /\ exitCode' = 1)]_vars

\* A tree with an empty pattern set and a passing one: the fixture test has
\* returned True and the union has been compiled.
C19_Witness ==
    /\ pc = "main_extra"
    /\ EmptySets # {}
    /\ DirsWithPatterns # {}
    /\ ret
    /\ db # <<>>
    /\ exitCode = -1

\* The files of a walk that are readable and have no component of
\* PATH_EXCLUDES anywhere in the path of their directory.
OutsideExcluded(files) ==
    {k \in 1..Len(files) :
        /\ files[k].readable
        /\ \A j \in 1..Len(files[k].dirpath) : files[k].dirpath[j] \notin PATH_EXCLUDES}

\* C20: the buffer of a dry-run scan is never a file inside a .git
\* directory, at any depth, and at the end of the walk of the external
\* tree every other readable file has been read once.
C20_NothingInsideGitScanned ==
    /\ (pc = "dr_files" /\ pending # {} /\ cur.flags.dry_run)
           => \A j \in 1..Len(cur.path.dir) : cur.path.dir[j] \notin PATH_EXCLUDES
    /\ (pc = "dr_files" /\ dr.caller = "main" /\ dr.idx > Len(dr.files))
           => dr.files_read = Cardinality(OutsideExcluded(dr.files))

\* The files directly in a directory other than README.md and patterns.yml.
SiblingFiles(d) ==
    SelectSeq(tree[d].files, LAMBDA f : f.name \notin {"README.md", "patterns.yml"})

\* C21: in fixture mode, for each directory with at least one kept pattern,
\* the files directly in it other than README.md and patterns.yml are
\* scanned in turn, each once, with the database compiled from the
\* directory's own kept patterns, and the reconcile loop starts only when
\* every one of them is scanned and every callback has returned.
C21_OwnFilesOnceWithOwnDatabase ==
    /\ [][(pc = "tp_walk" /\ pc' = "tp_files") => (dirIdx \in DirsWithPatterns /\ fileIdx' = 1)]_vars
    /\ [][(pc = "tp_files" /\ fileIdx' # fileIdx) =>
              /\ fileIdx' = fileIdx + 1
              /\ fileIdx <= Len(SiblingFiles(dirIdx))
              /\ cur'.path.name = SiblingFiles(dirIdx)[fileIdx].name
              /\ cur'.content = SiblingFiles(dirIdx)[fileIdx].content
              /\ db = RegexStrings(parse_patterns(tree[dirIdx], args.include, args.exclude))
              /\ pending' = HsScan(RegexStrings(parse_patterns(tree[dirIdx], args.include,
                                                               args.exclude)),
                                   SiblingFiles(dirIdx)[fileIdx].content)]_vars
    /\ [](pc = "tp_reconcile" =>
              /\ fileIdx = Len(SiblingFiles(dirIdx)) + 1
              /\ pending = {})
    /\ [][(pc = "tp_walk" /\ dirIdx \in DirsWithPatterns /\ pc' = "tp_walk") => FALSE]_vars

\* The records of the log that are informational: the summaries of the
\* dry-run, random and repo-clone modes.
InfoRecords == {k \in 1..Len(log) : log[k].what \in {"summary", "random summary"}}

\* C22: with quiet set no line is printed for a hit by any dry-run style
\* scan and no informational record is logged; without quiet every hit a
\* dry-run style scan records prints exactly one line.
C22_QuietSilencesDryRunHits ==
    /\ [](args.quiet => (stdout = <<>> /\ InfoRecords = {}))
    /\ [][(/\ ~args.quiet
           /\ pc \in {"dr_files", "rnd_binary", "rnd_ascii"}
           /\ RESULTS' # RESULTS
           /\ pc' = pc)
              => (/\ SumLens(RESULTS', DOMAIN RESULTS') = SumLens(RESULTS, DOMAIN RESULTS) + 1
                  /\ Len(stdout') = Len(stdout) + 1)]_vars

\* The bytes of the chunks of one kind handed to the matcher.
RECURSIVE FedBytes(_, _)
FedBytes(fed, kind) ==
    IF fed = <<>> THEN 0
    ELSE (IF Head(fed).kind = kind THEN Head(fed).size ELSE 0) + FedBytes(Tail(fed), kind)

\* The names of the patterns in use that have a stored match.
NamesWithHits ==
    {patterns[k].name : k \in {j \in 1..Len(patterns) :
                                   ResultsGet(RESULTS, patterns[j].name) # <<>>}}

\* C23: the random mode ends; no binary chunk is handed to the matcher
\* after an ASCII chunk, every chunk has the chunk size of its kind, and
\* when the mode returns the binary chunks add up to binary_goal bytes and
\* the ASCII chunks to ascii_goal bytes; the summary logged then holds the
\* number of stored matches of every pattern name that has one.
C23_RandomFeedsGoalsThenReports ==
    /\ (pc = "rnd_binary") ~> (pc \in {"main_repos", "exit"})
    /\ [](\A j, k \in 1..Len(rnd.fed) :
              (j < k /\ rnd.fed[j].kind = "ascii") => rnd.fed[k].kind = "ascii")
    /\ [](\A k \in 1..Len(rnd.fed) :
              rnd.fed[k].size = IF rnd.fed[k].kind = "binary" THEN binary_chunk_size
                                ELSE ascii_chunk_size)
    /\ [](pc = "rnd_ascii" /\ rnd.fed # <<>> /\ rnd.fed[Len(rnd.fed)].kind = "ascii"
              => FedBytes(rnd.fed, "binary") = binary_goal)
    /\ [](pc = "main_repos" =>
              /\ FedBytes(rnd.fed, "binary") = binary_goal
              /\ FedBytes(rnd.fed, "ascii") = ascii_goal
              /\ log # <<>>
              /\ log[Len(log)].what = "random summary"
              /\ DOMAIN log[Len(log)].counts = NamesWithHits
              /\ \A n \in NamesWithHits :
                     /\ log[Len(log)].counts[n] = Len(RESULTS[n])
                     /\ log[Len(log)].counts[n] > 0)

\* The random mode has returned after 20 chunks with matches stored under
\* one pattern name and none under the other.
C23_Witness ==
    /\ pc = "main_repos"
    /\ Len(rnd.fed) = 20
    /\ Len(patterns) = 2
    /\ Cardinality(NamesWithHits) = 1
    /\ \E n \in NamesWithHits : Len(RESULTS[n]) > 1

\* C24: a step of the reconcile loop leaves the store, the patterns and
\* their expectations as they are, and a second run of the loop over the
\* same store gives every pattern the verdict of the first run and leaves
\* the overall verdict where the first run put it.
C24_ReconcileTwiceSameVerdict ==
    /\ [][pc = "tp_reconcile" =>
              (RESULTS' = RESULTS /\ patterns' = patterns /\ tree' = tree)]_vars
    /\ [](pc = "tp_reconcile" =>
              \A k \in 1..Len(PassVerdicts) :
                  k > Len(patterns) =>
                      /\ PassVerdicts[k].pattern = PassVerdicts[k - Len(patterns)].pattern
                      /\ PassVerdicts[k].ok = PassVerdicts[k - Len(patterns)].ok)
    /\ [][(pc = "tp_reconcile" /\ Len(PassVerdicts) >= Len(patterns)) => ret' = ret]_vars

\* The second run of the loop is complete for a set in which one pattern
\* passes against a stored match.
C24_Witness ==
    /\ pc = "tp_reconcile"
    /\ patterns # <<>>
    /\ Len(PassVerdicts) = 2 * Len(patterns)
    /\ \E k \in 1..Len(patterns) :
           /\ patterns[k].expected # <<>>
           /\ PassVerdicts[Len(patterns) + k].ok
           /\ ResultsGet(RESULTS, patterns[k].name) # <<>>

\* C25: while callbacks of a scan are to run, the database scanned is the
\* compile of the whole pattern list bound into the callback, expression k
\* being the regex of pattern k, so that every rule id names the pattern
\* whose expression matched; it is never the compile of one pattern of the
\* list or of another list.
C25_RuleIdsIndexCompiledList ==
    pending # {} =>
        /\ Len(db) = Len(patterns)
        /\ \A k \in 1..Len(db) : db[k] = regex_string(patterns[k])
        /\ \A hit \in pending : hit.rule_id + 1 <= Len(patterns)

RECURSIVE SumSeq(_)
SumSeq(ns) == IF ns = <<>> THEN 0 ELSE Head(ns) + SumSeq(Tail(ns))

\* The bytes and the number of the files read at the clone paths of the
\* first n repositories of the list.
BytesRead(n) ==
    SumSeq([r \in 1..n |->
               SumSeq([f \in 1..Len(RepoScannedFiles(args.repos.list[r])) |->
                          Len(RepoScannedFiles(args.repos.list[r])[f].content)])])

FilesRead(n) == SumSeq([r \in 1..n |-> Len(RepoScannedFiles(args.repos.list[r]))])

\* C26: the totals of a repo-clone run, which its summary reports, are the
\* bytes and the number of the files read in all repositories of the list,
\* each file counted once.
C26_SummaryCountsEachFileOnce ==
    /\ (pc = "rp_loop" /\ db # <<>>) =>
           /\ rp.size_read = BytesRead(rp.idx - 1)
           /\ rp.files_read = FilesRead(rp.idx - 1)
    /\ (pc = "exit" /\ exitCode = 0 /\ args.repos.given) =>
           /\ log # <<>>
           /\ log[Len(log)].what = "summary"
           /\ log[Len(log)].size_read = BytesRead(Len(args.repos.list))
           /\ log[Len(log)].files_read = FilesRead(Len(args.repos.list))

\* C27: the loader of the test engine never aborts on a malformed entry:
\* it ends with the well-formed entries of the file loaded, all of them and
\* in their order, and a record logged for every entry it left out.
C27_TestLoaderSkipsMalformed ==
    /\ [][(pc = "ld_loop" /\ pc' \notin {"ld_loop", "ld_done"})
              => (pc' = "ld_test_done" /\ exitCode' = -1)]_vars
    /\ [](pc = "ld_test_done" =>
              /\ Len(patterns) = Len(LegalEntries)
              /\ \A k \in 1..Len(patterns) : patterns[k].name = LegalEntries[k].name
              /\ Len(log) = Len(tree[1].patterns) - Len(LegalEntries))

\* The matches of the k-th pattern of the current set on the files of the
\* current directory: the file and the hit of each.
OwnMatches(k) ==
    UNION {{<<f, h>> : h \in {x \in KeptHits(FixtureFiles(tree[dirIdx])[f]) :
                                  x.rule_id + 1 = k}} :
               f \in 1..Len(FixtureFiles(tree[dirIdx]))}

\* C28: when a pattern set is reconciled, the matches read for each of its
\* patterns are the matches of that pattern on the files of the set's own
\* directory, one stored match for each, and no match of another pattern
\* of the same name.
C28_ReconciledAgainstOwnMatches ==
    pc = "tp_reconcile" =>
        \A k \in 1..Len(patterns) :
            LET name == patterns[k].name
                pattern_results == ResultsGet(RESULTS, name)
            IN  /\ Len(pattern_results) = Cardinality(OwnMatches(k))
                /\ \A j \in 1..Len(pattern_results) :
                       \E m \in OwnMatches(k) :
                           /\ origin[name][j].content
                                  = FixtureFiles(tree[dirIdx])[m[1]].content
                           /\ origin[name][j].start_offset = m[2].start_offset
                           /\ origin[name][j].end_offset = m[2].end_offset
                           /\ pattern_results[j].file.name
                                  = FixtureFiles(tree[dirIdx])[m[1]].name

\* C29: for every stored match, the published start_offset is at most the
\* published end_offset and the bytes of the scanned content between them
\* are the bytes of the pattern capture: the refinement match consumed the
\* whole raw hit.
C29_PublishedSliceIsBodyCapture ==
    \A s \in Stored :
        /\ s.match.file.start_offset <= s.match.file.end_offset
        /\ Slice(s.from.content, s.match.file.start_offset, s.match.file.end_offset)
               = s.from.captured.pattern
        /\ Len(s.from.captured.start) + Len(s.from.captured.pattern)
               + Len(s.from.captured.end)
               = s.from.end_offset - s.from.start_offset

\* The thread t of the matcher waits for LOCK.
Requests(t) == t \in DOMAIN threads /\ NextOp(t) = "acquire"

\* C30: no thread requests LOCK while it holds it, neither a callback
\* thread nor the main thread before its summary; every callback that
\* requests LOCK gets it, and both scans return.
C30_LockNeverNestedScansReturn ==
    /\ [](\A t \in 1..MaxThreads : ~(Requests(t) /\ LOCK = t))
    /\ [](pc = "c_done" => LOCK # MainThread)
    /\ \A t \in 1..MaxThreads : Requests(t) ~> (LOCK = t)
    /\ (pc \in {"c_test_wait", "c_dry_wait"}) ~> (pc = "l_done")

\* A callback waits for LOCK while another callback, which has appended
\* its match, holds it.
C30_Witness ==
    \E t \in DOMAIN threads : \E u \in DOMAIN threads :
        /\ NextOp(t) = "acquire"
        /\ LOCK = u
        /\ u # t
        /\ NextOp(u) = "release"
        /\ threads[u].appended

====
